---------------------------- MODULE Spec2Model ----------------------------
(***************************************************************************)
(* The DDL job scheduler of the ddl package (ddl_worker.go, kept in        *)
(* src/ddl/db_integration_test.go from line 1832 on): addDDLJob,           *)
(* buildJobDependence, the worker loop handleDDLJobQueue with runDDLJob,   *)
(* finishDDLJob, updateSchemaVersion and the schema-version wait.          *)
(*                                                                         *)
(* The key-value store (kv.RunInNewTxn), the meta layer (meta.Meta), the   *)
(* owner manager and the schema syncer are not part of the sources; they   *)
(* are modelled from the specification of the scheduler.                   *)
(***************************************************************************)
EXTENDS Integers, Sequences, FiniteSets

(***************************************************************************)
(* Bounds of the model.                                                    *)
(***************************************************************************)
MaxJobs == 2          \* jobs submitted through addDDLJob in one behaviour
MaxFaults == 1        \* failures injected in one behaviour (errors, panics, crashes)
MaxRetry == 1         \* retries of one addDDLJob transaction
MaxOwnerChanges == 2  \* ownership changes in one behaviour
MaxSchemaSteps == 1  \* intermediate schema states a job passes before it is done
MaxQueueLen == 2      \* queue length drawn for the dependency functions
MaxProbeID == 4       \* job IDs drawn for the dependency functions

\* The validator: the capacity of its delta queue, the largest schema
\* version, the schema lease and the largest lease grant time.
maxNumberOfDiffsToLoad == 2
MaxVer == 2
LeaseMs == 2
MaxGrant == 2

(***************************************************************************)
(* Program constants.                                                      *)
(***************************************************************************)
generalWorker == 0
addIdxWorker == 1
noneDependencyJob == 0
ErrorCountLimit == 1   \* variable.GetDDLErrorCountLimit()

Nodes == {1, 2}
WorkerTypes == {generalWorker, addIdxWorker}
Tables == {1, 2}
AddIndexStr == "add index"
JobTypes == {AddIndexStr, "create table", "truncate table"}

\* A job: ID, Type, TableID, State, SchemaState (as the number of schema
\* states passed), DependencyID, ErrorCount and whether Error is set.
NoJob == [id |-> 0, tp |-> "none", tbl |-> 0, st |-> "none", ss |-> 0, dep |-> 0,
          errc |-> 0, err |-> FALSE, binlog |-> FALSE]

NewJob(tp, tbl) == [NoJob EXCEPT !.tp = tp, !.tbl = tbl]

Min(S) == CHOOSE x \in S : \A y \in S : x <= y
Max(S) == CHOOSE x \in S : \A y \in S : x >= y

RECURSIVE Reverse(_)
Reverse(s) == IF s = <<>> THEN <<>> ELSE Append(Reverse(Tail(s)), Head(s))

SeqIDs(s) == {s[i].id : i \in 1..Len(s)}

(***************************************************************************)
(* Job state predicates (model.Job).                                       *)
(***************************************************************************)
IsDone(job) == job.st = "done"
IsRollbackDone(job) == job.st = "rollback done"
IsSynced(job) == job.st = "synced"
IsCancelled(job) == job.st = "cancelled"
IsCancelling(job) == job.st = "cancelling"
IsRollingback(job) == job.st = "rollingback"
IsRunning(job) == job.st = "running"
IsFinished(job) == job.st \in {"done", "rollback done", "cancelled"}

\* model.Job.IsDependentOn: the two jobs handle the same table.
IsDependentOn(job, other) == other.tbl = job.tbl

\* newMetaWithQueueTp: the queue a job type or a worker type string selects.
QueueOfTypeDefault(tp) == generalWorker

QueueOfType(tp) == IF tp = AddIndexStr THEN addIdxWorker ELSE generalWorker

\* worker.typeStr
typeStrGeneral(wtp) == "general"

typeStr(wtp) == IF wtp = generalWorker THEN "general"
                ELSE IF wtp = addIdxWorker THEN AddIndexStr ELSE "unknow"

OtherQueue(q) == IF q = addIdxWorker THEN generalWorker ELSE addIdxWorker


(***************************************************************************)
(* State.                                                                  *)
(***************************************************************************)
VARIABLES
  gid,        \* store: the global ID counter (meta.GenGlobalID)
  sver,       \* store: the schema version counter (meta.GenSchemaVersion)
  diffs,      \* store: schema version -> SchemaDiff (meta.SetSchemaDiff)
  queue,      \* store: queue type -> sequence of jobs, head first
  hist,       \* store: job ID -> job of the history store
  nodes,      \* the nodes of the cluster
  owner,      \* owner manager: the node holding ownership, 0 when none
  epoch,      \* number of ownership changes made by the owner manager so far
  faults,     \* number of failures injected so far
  globalVer,  \* schema syncer: the published global schema version
  loaded,     \* schema syncer: node -> schema version the node reported
  lease,      \* the configured schema lease, in clock ticks
  cl,         \* client -> state of its addDDLJob call
  wk,         \* worker -> local state of its handleDDLJobQueue loop
  probe,      \* last application of a dependency function: input and result
  sv,         \* the schema validator of a node (schemaValidator)
  chk,        \* last call of Check on the validator: arguments and result
  vlog,       \* history of the validator, for the properties
  log         \* history of the behaviour, read by the properties only

vars == <<gid, sver, diffs, queue, hist, nodes, owner, epoch, faults, globalVer,
          loaded, lease, cl, wk, probe, sv, chk, vlog, log>>

auxVars == <<probe, sv, chk, vlog>>

storeVars == <<gid, sver, diffs, queue, hist>>

envVars == <<nodes, owner, epoch, globalVer, loaded, lease>>

\* A failure may be injected, and is counted.
Fault == faults < MaxFaults /\ faults' = faults + 1

NoFault == UNCHANGED faults

Clients == 1..MaxJobs
Workers == Nodes \X WorkerTypes

\* The workers of the cluster's nodes.
Live == nodes \X WorkerTypes

\* The jobs a cluster takes in one behaviour: one fewer for each node more.
JobBudget == MaxJobs - (Cardinality(nodes) - 1)

\* meta.GetHistoryDDLJob
GetHistoryDDLJob(h, id) == IF id \in DOMAIN h THEN h[id] ELSE NoJob

\* meta.GetAllDDLJobsInQueue: every job of the list, the most recently
\* enqueued first.
GetAllDDLJobsInQueue(qs, q) == Reverse(qs[q])

\* meta.GetDDLJobByIdx(0)
getLastDDLJob(qs, q) == IF qs[q] = <<>> THEN NoJob ELSE qs[q][Len(qs[q])]

getFirstDDLJob(qs, q) == IF qs[q] = <<>> THEN NoJob ELSE Head(qs[q])

(***************************************************************************)
(* buildJobDependence (lines 1973-2003).  The job list is the default      *)
(* queue for an add-index job and the add-index queue for any other job;   *)
(* the loop takes the first job of the list that is not newer than curJob  *)
(* and on which curJob depends, sets DependencyID to its ID and stops.     *)
(* A job without such a job keeps the DependencyID it came with.           *)
(***************************************************************************)
DependenceList(qs, curJob) ==
  IF curJob.tp = AddIndexStr THEN GetAllDDLJobsInQueue(qs, generalWorker)
  ELSE GetAllDDLJobsInQueue(qs, addIdxWorker)

DependentAt(jobs, curJob) ==
  {i \in 1..Len(jobs) : ~(curJob.id < jobs[i].id) /\ IsDependentOn(curJob, jobs[i])}

buildJobDependenceNoBreak(qs, curJob) ==
  LET jobs == DependenceList(qs, curJob)
  IN  IF DependentAt(jobs, curJob) = {} THEN curJob
      ELSE [curJob EXCEPT !.dep = jobs[Max(DependentAt(jobs, curJob))].id]

buildJobDependence(qs, curJob) ==
  LET jobs == DependenceList(qs, curJob)
  IN  IF DependentAt(jobs, curJob) = {} THEN curJob
      ELSE [curJob EXCEPT !.dep = jobs[Min(DependentAt(jobs, curJob))].id]

(***************************************************************************)
(* isDependencyJobDone (lines 2146-2161): the result, the error and the    *)
(* job after the call.  readErr: the history read fails.                   *)
(***************************************************************************)
isDependencyJobDoneNoHistory(h, job, readErr) ==
  IF job.dep = noneDependencyJob THEN [done |-> TRUE, err |-> FALSE, job |-> job]
  ELSE IF readErr THEN [done |-> FALSE, err |-> TRUE, job |-> job]
  ELSE [done |-> TRUE, err |-> FALSE,
        job |-> [job EXCEPT !.dep = noneDependencyJob]]

isDependencyJobDoneKeepID(h, job, readErr) ==
  IF job.dep = noneDependencyJob THEN [done |-> TRUE, err |-> FALSE, job |-> job]
  ELSE IF readErr THEN [done |-> FALSE, err |-> TRUE, job |-> job]
  ELSE IF GetHistoryDDLJob(h, job.dep) = NoJob
       THEN [done |-> FALSE, err |-> FALSE, job |-> job]
  ELSE [done |-> TRUE, err |-> FALSE, job |-> job]

isDependencyJobDone(h, job, readErr) ==
  IF job.dep = noneDependencyJob THEN [done |-> TRUE, err |-> FALSE, job |-> job]
  ELSE IF readErr THEN [done |-> FALSE, err |-> TRUE, job |-> job]
  ELSE IF GetHistoryDDLJob(h, job.dep) = NoJob
       THEN [done |-> FALSE, err |-> FALSE, job |-> job]
  ELSE [done |-> TRUE, err |-> FALSE,
        job |-> [job EXCEPT !.dep = noneDependencyJob]]

(***************************************************************************)
(* Initial local states.                                                   *)
(***************************************************************************)
NoProbe == [fn |-> "none", in |-> NoJob, out |-> NoJob, done |-> FALSE, err |-> FALSE]

\* A client in addDDLJob: the job object, the attempts made, whether the
\* attempt in flight can no longer commit, the keys it wrote, and whether
\* its buildJobDependence found a job to depend on.
ClientInit == [pc |-> "idle", job |-> NoJob, tries |-> 0, doomed |-> FALSE,
               keys |-> {}, found |-> FALSE]


\* The writes buffered by a worker's transaction: the job written back at
\* index 0 (upd), the dequeue (deq), the job appended to history (addHist),
\* the schema version counter (newVer), the version a SchemaDiff is written
\* under (diff), and the version updateSchemaVersion returned (ret).
NoTx == [upd |-> NoJob, deq |-> FALSE, addHist |-> NoJob, newVer |-> 0,
         diff |-> 0, ret |-> 0]

\* A worker: its position in handleDDLJobQueue, once, the job, schemaVer
\* and runJobErr of the pass, whether the pass called runDDLJob, its
\* transaction and whether that can no longer commit, the version it waits
\* for and the time it has waited, the ownership term of its pass, and
\* the ownership term in which this call made its pass that only waits.
WorkerInit == [pc |-> "loop", once |-> TRUE, job |-> NoJob, schemaVer |-> 0,
               runJobErr |-> FALSE, ran |-> FALSE, tx |-> NoTx,
               doomed |-> FALSE, waitVer |-> 0, waited |-> 0, chkEpoch |-> 0,
               tooLarge |-> FALSE, panic |-> FALSE, syncEpoch |-> 0]

(***************************************************************************)
(* updateSchemaVersion (lines 2504-2532).  snapVer is the counter the      *)
(* transaction reads; oc says which call fails: "genFail" GenSchemaVersion,*)
(* "decodeFail" job.DecodeArgs (truncate table only here), "setFail"       *)
(* SetSchemaDiff, "ok" none.  Result: the returned version and error, the  *)
(* counter value left in the transaction's buffer (0: not written) and     *)
(* the version a SchemaDiff was written under (0: none).                   *)
(***************************************************************************)
VersionOutcomes(job) ==
  {"ok", "genFail", "setFail"} \cup
  (IF job.tp = "truncate table" THEN {"decodeFail"} ELSE {})

updateSchemaVersion(snapVer, job, oc) ==
  IF oc = "genFail" THEN [ver |-> 0, err |-> TRUE, newVer |-> 0, diff |-> 0]
  ELSE IF oc = "decodeFail"
       THEN [ver |-> 0, err |-> TRUE, newVer |-> snapVer + 1, diff |-> 0]
  ELSE IF oc = "setFail"
       THEN [ver |-> snapVer + 1, err |-> TRUE, newVer |-> snapVer + 1, diff |-> 0]
  ELSE [ver |-> snapVer + 1, err |-> FALSE, newVer |-> snapVer + 1,
        diff |-> snapVer + 1]


\* admin.IsJobRollbackable: a truncate table job can be rolled back only
\* before its first schema state change; the other jobs here always.
IsJobRollbackable(job) == job.tp = "truncate table" => job.ss = 0

NoResult == [job |-> NoJob, ver |-> 0, err |-> FALSE, newVer |-> 0, diff |-> 0,
             ret |-> 0, panic |-> FALSE]

(***************************************************************************)
(* One call of the step function of the job's type (onCreateTable,         *)
(* onTruncateTable, onCreateIndex, ...).  oc = <<kind, vo>>: what the step *)
(* does in this pass and how its call of updateSchemaVersion ends.         *)
(***************************************************************************)
StepKinds(job) ==
  (IF IsRunning(job) /\ job.ss < MaxSchemaSteps THEN {"advance"} ELSE {}) \cup
  (IF IsRunning(job) THEN {"finish", "panic"} ELSE {}) \cup
  (IF IsRunning(job) /\ job.tp = AddIndexStr THEN {"noop"} ELSE {}) \cup
  (IF IsRunning(job) /\ job.ss = 0 THEN {"cancel"} ELSE {}) \cup
  (IF IsRollingback(job) THEN {"rollback"} ELSE {}) \cup
  {"error"}

StepOutcomes(job) ==
  {<<k, "ok">> : k \in StepKinds(job)} \cup
  {<<k, vo>> : k \in StepKinds(job) \cap {"advance", "finish", "rollback"},
               vo \in VersionOutcomes(job) \ {"ok"}}

\* The outcomes in which something fails.
IsFault(oc) == oc[1] \in {"error", "cancel", "panic"} \/ oc[2] # "ok"

Step(snapVer, job, oc) ==
  LET v == updateSchemaVersion(snapVer, job, oc[2])
      changed == IF oc[1] = "advance" THEN [job EXCEPT !.ss = @ + 1]
                 ELSE IF oc[1] = "finish"
                      THEN [job EXCEPT !.st = "done", !.binlog = TRUE]
                 ELSE [job EXCEPT !.st = "rollback done", !.binlog = TRUE]
  IN  IF oc[1] \in {"advance", "finish", "rollback"}
      THEN [NoResult EXCEPT !.job = IF v.err THEN job ELSE changed,
                            !.ver = v.ver, !.err = v.err, !.newVer = v.newVer,
                            !.diff = v.diff,
                            !.ret = IF v.err THEN 0 ELSE v.ver]
      ELSE IF oc[1] = "error" THEN [NoResult EXCEPT !.job = job, !.err = TRUE]
      ELSE IF oc[1] = "cancel"
           THEN [NoResult EXCEPT !.job = [job EXCEPT !.st = "cancelled"], !.err = TRUE]
      ELSE IF oc[1] = "panic" THEN [NoResult EXCEPT !.job = job, !.panic = TRUE]
      ELSE [NoResult EXCEPT !.job = job]

(***************************************************************************)
(* convertJob2RollbackJob: a cancelling job that changed nothing yet is    *)
(* cancelled; one that did starts rolling back, which bumps the schema     *)
(* version.  Both record the error on the job and return it.               *)
(***************************************************************************)
convertJob2RollbackJob(snapVer, job) ==
  LET v == updateSchemaVersion(snapVer, job, "ok")
      j == [job EXCEPT !.err = TRUE, !.errc = @ + 1]
  IN  IF job.ss = 0
      THEN [NoResult EXCEPT !.job = [j EXCEPT !.st = "cancelled"], !.err = TRUE]
      ELSE [NoResult EXCEPT !.job = [j EXCEPT !.st = "rollingback"], !.err = TRUE,
                            !.ver = v.ver, !.newVer = v.newVer, !.diff = v.diff,
                            !.ret = v.ver]

(***************************************************************************)
(* runDDLJob (lines 2300-2401).                                            *)
(***************************************************************************)
runDDLJobErrorDropped(snapVer, job, oc) ==
  IF IsFinished(job) THEN [NoResult EXCEPT !.job = job]
  ELSE IF IsCancelling(job) THEN convertJob2RollbackJob(snapVer, job)
  ELSE
    LET j1 == IF ~IsRollingback(job) /\ ~IsCancelling(job)
              THEN [job EXCEPT !.st = "running"] ELSE job
        r  == IF j1.tp \in JobTypes THEN Step(snapVer, j1, oc)
              ELSE [NoResult EXCEPT !.job = [j1 EXCEPT !.st = "cancelled"],
                                    !.err = TRUE]
        j2 == r.job
    IN  IF ~r.err THEN r
        ELSE IF j2.st = "cancelled" THEN [r EXCEPT !.job = j2, !.err = FALSE]
        ELSE IF j2.errc > ErrorCountLimit /\ j2.st = "running" /\ IsJobRollbackable(j2)
             THEN [r EXCEPT !.job = [j2 EXCEPT !.st = "cancelling"]]
        ELSE [r EXCEPT !.job = j2]

runDDLJobAnyState(snapVer, job, oc) ==
  IF IsFinished(job) THEN [NoResult EXCEPT !.job = job]
  ELSE IF IsCancelling(job) THEN convertJob2RollbackJob(snapVer, job)
  ELSE
    LET j1 == IF ~IsRollingback(job) /\ ~IsCancelling(job)
              THEN [job EXCEPT !.st = "running"] ELSE job
        r  == IF j1.tp \in JobTypes THEN Step(snapVer, j1, oc)
              ELSE [NoResult EXCEPT !.job = [j1 EXCEPT !.st = "cancelled"],
                                    !.err = TRUE]
        j2 == [r.job EXCEPT !.err = TRUE, !.errc = @ + 1]
    IN  IF ~r.err THEN r
        ELSE IF j2.st = "cancelled" THEN [r EXCEPT !.job = j2, !.err = FALSE]
        ELSE IF j2.errc > ErrorCountLimit /\ IsJobRollbackable(j2)
             THEN [r EXCEPT !.job = [j2 EXCEPT !.st = "cancelling"]]
        ELSE [r EXCEPT !.job = j2]

runDDLJob(snapVer, job, oc) ==
  IF IsFinished(job) THEN [NoResult EXCEPT !.job = job]
  ELSE IF IsCancelling(job) THEN convertJob2RollbackJob(snapVer, job)
  ELSE
    LET j1 == IF ~IsRollingback(job) /\ ~IsCancelling(job)
              THEN [job EXCEPT !.st = "running"] ELSE job
        r  == IF j1.tp \in JobTypes THEN Step(snapVer, j1, oc)
              ELSE [NoResult EXCEPT !.job = [j1 EXCEPT !.st = "cancelled"],
                                    !.err = TRUE]
        j2 == [r.job EXCEPT !.err = TRUE, !.errc = @ + 1]
    IN  IF ~r.err THEN r
        ELSE IF j2.st = "cancelled" THEN [r EXCEPT !.job = j2, !.err = FALSE]
        ELSE IF j2.errc > ErrorCountLimit /\ j2.st = "running" /\ IsJobRollbackable(j2)
             THEN [r EXCEPT !.job = [j2 EXCEPT !.st = "cancelling"]]
        ELSE [r EXCEPT !.job = j2]

\* The outcomes runDDLJob can have for a job read from the queue.
RunOutcomes(job) ==
  IF IsFinished(job) \/ IsCancelling(job) THEN {<<"noop", "ok">>}
  ELSE StepOutcomes(IF ~IsRollingback(job) THEN [job EXCEPT !.st = "running"] ELSE job)


(***************************************************************************)
(* The transaction layer (kv.RunInNewTxn over an optimistic transaction):  *)
(* a transaction reads the store as it is when it begins, buffers its      *)
(* writes, and commits all of them or none; it cannot commit when a        *)
(* transaction that committed after it began wrote one of its keys.        *)
(***************************************************************************)
TxKeys(tx, q) ==
  (IF tx.upd # NoJob THEN {<<"qe", tx.upd.id>>} ELSE {}) \cup
  (IF tx.deq THEN {<<"qm", q>>} ELSE {}) \cup
  (IF tx.deq /\ tx.addHist # NoJob THEN {<<"qe", tx.addHist.id>>} ELSE {}) \cup
  (IF tx.addHist # NoJob THEN {<<"hist", 0>>} ELSE {}) \cup
  (IF tx.newVer # 0 THEN {<<"ver", 0>>} ELSE {})

EnqueueKeys(job) ==
  {<<"gid", 0>>, <<"qm", QueueOfType(job.tp)>>, <<"qe", job.id>>}

\* Every other transaction in flight that wrote one of the keys W can no
\* longer commit.
DoomClients(W, me) ==
  [c \in Clients |->
     IF c # me /\ cl[c].pc = "txn" /\ cl[c].keys \cap W # {}
     THEN [cl[c] EXCEPT !.doomed = TRUE] ELSE cl[c]]

DoomWorkers(W, me) ==
  [w \in Workers |->
     IF w # me /\ wk[w].pc = "commit" /\ TxKeys(wk[w].tx, w[2]) \cap W # {}
     THEN [wk[w] EXCEPT !.doomed = TRUE] ELSE wk[w]]

(***************************************************************************)
(* finishDDLJob (lines 2091-2127) and updateDDLJob (lines 2068-2077) as    *)
(* writes of the transaction.                                              *)
(***************************************************************************)
finishDDLJobNoHistory(tx, job) == [tx EXCEPT !.deq = TRUE]

finishDDLJob(tx, job) == [tx EXCEPT !.deq = TRUE, !.addHist = job]

updateDDLJobDropped(tx, job) == tx

updateDDLJob(tx, job) == [tx EXCEPT !.upd = job]

\* updateDDLJob followed by handleUpdateJobError (lines 2050-2064, 2235-
\* 2236).  tooLarge: UpdateDDLJob fails with ErrEntryTooLarge; the job is
\* then cancelled and finished in the same transaction.
handleUpdateJobErrorKeepQueued(tx, job, tooLarge) ==
  LET j == [job EXCEPT !.st = "cancelled", !.ss = 0, !.err = TRUE,
                       !.binlog = FALSE]
  IN  IF tooLarge THEN [job |-> j, tx |-> tx]
      ELSE [job |-> job, tx |-> updateDDLJob(tx, job)]

handleUpdateJobError(tx, job, tooLarge) ==
  LET j == [job EXCEPT !.st = "cancelled", !.ss = 0, !.err = TRUE,
                       !.binlog = FALSE]
  IN  IF tooLarge THEN [job |-> j, tx |-> finishDDLJob(tx, j)]
      ELSE [job |-> job, tx |-> updateDDLJob(tx, job)]

(***************************************************************************)
(* waitSchemaChanged (lines 2427-2450): whether the call waits at all.     *)
(***************************************************************************)
NeedsWait(waitTime, latestSchemaVersion, job) ==
  /\ IsRunning(job) \/ IsRollingback(job) \/ IsDone(job) \/ IsRollbackDone(job)
  /\ waitTime # 0
  /\ latestSchemaVersion # 0

\* waitSchemaSynced (lines 2487-2501): the wait of the first pass.
NeedsSyncWait(waitTime, job, getErr) ==
  /\ IsRunning(job) \/ IsRollingback(job) \/ IsDone(job) \/ IsRollbackDone(job)
  /\ ~getErr
  /\ NeedsWait(waitTime, globalVer, job)


\* The owner manager's IsOwner.
isOwner(n) == owner = n

\* handleDDLJobQueue, lines 2186-2189: the pass ends when the node is not
\* the owner.
NotOwnerReturnNever(n) == FALSE

NotOwnerReturn(n) == ~isOwner(n)

(***************************************************************************)
(* addDDLJob (lines 2006-2027).  One attempt of its transaction: the job   *)
(* gets the next global ID, its dependency is computed from the queues the *)
(* transaction reads, and the enqueue is buffered.  The job object is the  *)
(* same in every attempt.                                                  *)
(***************************************************************************)
AttemptKeepID(c, job, tries) ==
  LET cur == [job EXCEPT !.id = IF tries = 0 THEN gid + 1 ELSE @]
      j == buildJobDependence(queue, cur)
  IN  cl' = [cl EXCEPT ![c] = [pc |-> "txn", job |-> j, tries |-> tries,
                               doomed |-> FALSE, keys |-> EnqueueKeys(j),
                               found |-> DependentAt(DependenceList(queue, cur),
                                                     cur) # {}]]

Attempt(c, job, tries) ==
  LET cur == [job EXCEPT !.id = gid + 1]
      j == buildJobDependence(queue, cur)
  IN  cl' = [cl EXCEPT ![c] = [pc |-> "txn", job |-> j, tries |-> tries,
                               doomed |-> FALSE, keys |-> EnqueueKeys(j),
                               found |-> DependentAt(DependenceList(queue, cur),
                                                     cur) # {}]]

AddDDLJob(c, tp, tbl) ==
  /\ cl[c].pc = "idle"
  /\ c <= JobBudget
  /\ IF c = 1 THEN TRUE ELSE cl[c - 1].pc # "idle"
  /\ Attempt(c, NewJob(tp, tbl), 0)
  /\ UNCHANGED <<storeVars, envVars, faults, wk, auxVars, log>>

\* The attempt failed (a conflict or a store error) and is retried.
AddRetry(c) ==
  /\ cl[c].pc = "txn"
  /\ cl[c].tries < MaxRetry
  /\ IF cl[c].doomed THEN NoFault ELSE Fault
  /\ Attempt(c, cl[c].job, cl[c].tries + 1)
  /\ UNCHANGED <<storeVars, envVars, wk, auxVars, log>>

\* The last attempt failed: addDDLJob returns the error.
AddFail(c) ==
  /\ cl[c].pc = "txn"
  /\ cl[c].tries = MaxRetry
  /\ IF cl[c].doomed THEN NoFault ELSE Fault
  /\ cl' = [cl EXCEPT ![c] = [ClientInit EXCEPT !.pc = "failed"]]
  /\ UNCHANGED <<storeVars, envVars, wk, auxVars, log>>

AddCommit(c) ==
  LET job == cl[c].job
      q == QueueOfType(job.tp)
  IN  /\ cl[c].pc = "txn"
      /\ ~cl[c].doomed
      /\ gid' = job.id
      /\ queue' = [queue EXCEPT ![q] = Append(@, job)]
      /\ cl' = [DoomClients(cl[c].keys, c) EXCEPT
                  ![c] = [ClientInit EXCEPT !.pc = "done"]]
      /\ wk' = DoomWorkers(cl[c].keys, <<0, 0>>)
      /\ log' = [log EXCEPT !.enq = @ \cup {[id |-> job.id, q |-> q, dep |-> job.dep,
                                              found |-> cl[c].found]}]
      /\ UNCHANGED <<sver, diffs, hist, envVars, faults, auxVars>>


(***************************************************************************)
(* The worker loop: start (lines 1936-1962) calls handleDDLJobQueue        *)
(* (lines 2171-2272) on every tick or notification.  A worker outside      *)
(* handleDDLJobQueue and one at the top of its loop differ only in once,   *)
(* which is true at the first pass of every call.                          *)
(***************************************************************************)
Set(w, rec) == wk' = [wk EXCEPT ![w] = rec]

\* Lines 2186-2189 and 2254-2257: the node is not the owner; the pass
\* commits nothing and handleDDLJobQueue returns.
PassNotOwner(w) ==
  /\ wk[w].pc = "loop"
  /\ NotOwnerReturn(w[1])
  /\ Set(w, WorkerInit)
  /\ UNCHANGED <<storeVars, envVars, faults, cl, auxVars, log>>

\* Lines 2194-2197: the queue of the worker is empty.
PassNoJob(w) ==
  /\ wk[w].pc = "loop"
  /\ ~NotOwnerReturn(w[1])
  /\ getFirstDDLJob(queue, QueueOfType(typeStr(w[2]))) = NoJob
  /\ Set(w, WorkerInit)
  /\ UNCHANGED <<storeVars, envVars, faults, cl, auxVars, log>>

\* Lines 2198-2200 and 2258: the dependency of the head job is not done
\* (the pass is repeated after a sleep), or reading it failed
\* (handleDDLJobQueue returns the error).
PassDependency(w, readErr) ==
  LET head == getFirstDDLJob(queue, QueueOfType(typeStr(w[2])))
      d == isDependencyJobDone(hist, head, readErr)
  IN  /\ wk[w].pc = "loop"
      /\ ~NotOwnerReturn(w[1])
      /\ head # NoJob
      /\ ~d.done
      /\ IF d.err THEN Set(w, WorkerInit) ELSE Set(w, wk[w])
      /\ IF readErr THEN Fault ELSE NoFault
      /\ UNCHANGED <<storeVars, envVars, cl, auxVars, log>>

\* Lines 2202-2206: the first pass of this call that finds a job to run
\* only waits for the schema to be synced.  getErr: MustGetGlobalVersion
\* fails.
PassSync(w, getErr) ==
  LET head == getFirstDDLJob(queue, QueueOfType(typeStr(w[2])))
      d == isDependencyJobDone(hist, head, FALSE)
      me == [wk[w] EXCEPT !.once = FALSE, !.syncEpoch = epoch]
  IN  /\ wk[w].pc = "loop"
      /\ ~NotOwnerReturn(w[1])
      /\ head # NoJob
      /\ d.done
      /\ wk[w].once
      /\ IF NeedsSyncWait(2 * lease, d.job, getErr)
         THEN Set(w, [me EXCEPT !.pc = "syncPub", !.job = d.job,
                                !.waitVer = globalVer, !.chkEpoch = epoch])
         ELSE Set(w, me)
      /\ IF getErr THEN Fault ELSE NoFault
      /\ UNCHANGED <<storeVars, envVars, cl, auxVars, log>>

\* Lines 2209-2211: the state a done or rolled back job is finished with.
FinishStateKept(job) == job

FinishState(job) ==
  IF ~IsRollbackDone(job) THEN [job EXCEPT !.st = "synced"] ELSE job

\* Lines 2208-2214: a done or rolled back job is finished.
PassFinish(w) ==
  LET head == getFirstDDLJob(queue, QueueOfType(typeStr(w[2])))
      d == isDependencyJobDone(hist, head, FALSE)
      job == FinishState(d.job)
  IN  /\ wk[w].pc = "loop"
      /\ ~NotOwnerReturn(w[1])
      /\ head # NoJob
      /\ d.done
      /\ ~wk[w].once
      /\ IsDone(d.job) \/ IsRollbackDone(d.job)
      /\ Set(w, [wk[w] EXCEPT !.pc = "commit", !.job = job, !.schemaVer = 0,
                              !.runJobErr = FALSE, !.ran = FALSE,
                              !.tx = finishDDLJob(NoTx, job),
                              !.doomed = FALSE, !.chkEpoch = epoch])
      /\ UNCHANGED <<storeVars, envVars, faults, cl, auxVars, log>>

\* Lines 2216-2242: the step dispatch.  A panic leaves schemaVer and
\* runJobErr unset and makes the job cancelling; a cancelled job is
\* finished after the writes of the step were dropped (txn.Reset), any
\* other job is written back at the head of the queue.
DispatchNoFinish(job, oc, tooLarge) ==
  LET r == runDDLJob(sver, job, oc)
      j == IF r.panic THEN [r.job EXCEPT !.st = "cancelling"] ELSE r.job
      buffered == [NoTx EXCEPT !.newVer = r.newVer, !.diff = r.diff, !.ret = r.ret]
      u == handleUpdateJobError(buffered, j, tooLarge)
  IN  [job |-> u.job,
       updated |-> TRUE,
       schemaVer |-> IF r.panic THEN 0 ELSE r.ver,
       runJobErr |-> IF r.panic THEN FALSE ELSE r.err,
       panic |-> r.panic,
       tx |-> u.tx]

DispatchPanicKept(job, oc, tooLarge) ==
  LET r == runDDLJob(sver, job, oc)
      j == r.job
      buffered == [NoTx EXCEPT !.newVer = r.newVer, !.diff = r.diff, !.ret = r.ret]
      u == handleUpdateJobError(buffered, j, tooLarge)
  IN  [job |-> IF IsCancelled(j) THEN j ELSE u.job,
       updated |-> ~IsCancelled(j),
       schemaVer |-> IF r.panic THEN 0 ELSE r.ver,
       runJobErr |-> IF r.panic THEN FALSE ELSE r.err,
       panic |-> r.panic,
       tx |-> IF IsCancelled(j) THEN finishDDLJob(NoTx, j) ELSE u.tx]

Dispatch(job, oc, tooLarge) ==
  LET r == runDDLJob(sver, job, oc)
      j == IF r.panic THEN [r.job EXCEPT !.st = "cancelling"] ELSE r.job
      buffered == [NoTx EXCEPT !.newVer = r.newVer, !.diff = r.diff, !.ret = r.ret]
      u == handleUpdateJobError(buffered, j, tooLarge)
  IN  [job |-> IF IsCancelled(j) THEN j ELSE u.job,
       updated |-> ~IsCancelled(j),
       schemaVer |-> IF r.panic THEN 0 ELSE r.ver,
       runJobErr |-> IF r.panic THEN FALSE ELSE r.err,
       panic |-> r.panic,
       tx |-> IF IsCancelled(j) THEN finishDDLJob(NoTx, j) ELSE u.tx]

\* oc: the outcome of runDDLJob; tooLarge: UpdateDDLJob fails with
\* ErrEntryTooLarge.
PassRun(w) ==
  LET head == getFirstDDLJob(queue, QueueOfType(typeStr(w[2])))
      d == isDependencyJobDone(hist, head, FALSE)
  IN  /\ wk[w].pc = "loop"
      /\ ~NotOwnerReturn(w[1])
      /\ head # NoJob
      /\ d.done
      /\ ~wk[w].once
      /\ ~(IsDone(d.job) \/ IsRollbackDone(d.job))
      /\ \E oc \in RunOutcomes(d.job), tooLarge \in BOOLEAN :
           LET r == Dispatch(d.job, oc, tooLarge)
           IN  /\ tooLarge => r.updated
               /\ Set(w, [wk[w] EXCEPT !.pc = "commit", !.job = r.job,
                                       !.schemaVer = r.schemaVer,
                                       !.runJobErr = r.runJobErr, !.ran = TRUE,
                                       !.tx = r.tx, !.doomed = FALSE,
                                       !.chkEpoch = epoch,
                                       !.tooLarge = tooLarge,
                                       !.panic = r.panic])
               /\ IF IsFault(oc) \/ tooLarge THEN Fault ELSE NoFault
      /\ UNCHANGED <<storeVars, envVars, cl, auxVars, log>>


\* The store after the writes of tx are applied to the queue q.
PutHistory(h, job) ==
  [id \in DOMAIN h \cup {job.id} |-> IF id = job.id THEN job ELSE h[id]]

PutDiff(ds, v, job) ==
  [x \in DOMAIN ds \cup {v} |->
     IF x = v THEN [tp |-> job.tp, tbl |-> job.tbl] ELSE ds[x]]

\* The version the last version-changing pass of the job id committed, and
\* the time since then.
PutLast(l, id, v) ==
  [x \in DOMAIN l \cup {id} |-> IF x = id THEN [ver |-> v, age |-> 0] ELSE l[x]]

\* The transaction of the pass commits: its writes reach the store
\* together.  After it handleDDLJobQueue waits for the schema version of
\* the pass (line 2267) when waitSchemaChanged asks for it.
Commit(w) ==
  LET tx == wk[w].tx
      q == QueueOfType(typeStr(w[2]))
      W == TxKeys(tx, q)
      me == [WorkerInit EXCEPT !.once = FALSE, !.syncEpoch = wk[w].syncEpoch]
  IN  /\ wk[w].pc = "commit"
      /\ ~wk[w].doomed
      /\ queue' = [queue EXCEPT ![q] =
                     IF tx.deq THEN Tail(@)
                     ELSE IF tx.upd # NoJob THEN [@ EXCEPT ![1] = tx.upd]
                     ELSE @]
      /\ hist' = IF tx.addHist # NoJob THEN PutHistory(hist, tx.addHist) ELSE hist
      /\ sver' = IF tx.newVer # 0 THEN tx.newVer ELSE sver
      /\ diffs' = IF tx.diff # 0 THEN PutDiff(diffs, tx.diff, wk[w].job) ELSE diffs
      /\ wk' = [DoomWorkers(W, w) EXCEPT ![w] =
                  IF NeedsWait(2 * lease, wk[w].schemaVer, wk[w].job)
                  THEN [me EXCEPT !.pc = "waitPub", !.job = wk[w].job,
                                  !.waitVer = wk[w].schemaVer,
                                  !.chkEpoch = wk[w].chkEpoch]
                  ELSE me]
      /\ cl' = DoomClients(W, 0)
      /\ log' = [log EXCEPT
                   !.rets = IF tx.ret # 0 THEN Append(@, tx.ret) ELSE @,
                   !.last = IF tx.newVer # 0
                            THEN PutLast(@, wk[w].job.id, tx.newVer) ELSE @,
                   !.tooLarge = IF wk[w].tooLarge THEN @ \cup {wk[w].job.id} ELSE @]
      /\ UNCHANGED <<gid, envVars, faults, auxVars>>

\* The transaction of the pass fails: a conflict, a store error, or an
\* error returned inside it (finishDDLJob, updateDDLJob).  Nothing is
\* written and handleDDLJobQueue returns the error (lines 2252-2253).
CommitFail(w) ==
  /\ wk[w].pc = "commit"
  /\ IF wk[w].doomed THEN NoFault ELSE Fault
  /\ Set(w, WorkerInit)
  /\ UNCHANGED <<storeVars, envVars, cl, auxVars, log>>

(***************************************************************************)
(* waitSchemaChanged, lines 2451-2478: OwnerUpdateGlobalVersion publishes  *)
(* the version, OwnerCheckAllVersions returns when every node has loaded   *)
(* it; the deadline of the context ends the wait at any point.             *)
(***************************************************************************)
Publish(w, ok) ==
  /\ wk[w].pc \in {"syncPub", "waitPub"}
  /\ globalVer' = IF ok THEN wk[w].waitVer ELSE globalVer
  /\ Set(w, [wk[w] EXCEPT !.pc = IF @ = "syncPub" THEN "syncChk" ELSE "waitChk"])
  /\ IF ok THEN NoFault ELSE Fault
  /\ UNCHANGED <<storeVars, nodes, owner, epoch, loaded, lease, cl, auxVars, log>>

AllSynced(v) == \A n \in nodes : loaded[n] >= v

WaitSynced(w) ==
  /\ wk[w].pc \in {"syncChk", "waitChk"}
  /\ AllSynced(wk[w].waitVer)
  /\ Set(w, [WorkerInit EXCEPT !.once = FALSE, !.syncEpoch = wk[w].syncEpoch])
  /\ UNCHANGED <<storeVars, envVars, faults, cl, auxVars, log>>

\* OwnerCheckAllVersions fails with an error that is not the deadline of
\* the context (lines 2466-2475): the call waits for ctx.Done().
CheckFailReturns(w) ==
  /\ wk[w].pc \in {"syncChk", "waitChk"}
  /\ Set(w, [WorkerInit EXCEPT !.once = FALSE, !.syncEpoch = wk[w].syncEpoch])
  /\ Fault
  /\ UNCHANGED <<storeVars, envVars, cl, auxVars, log>>

CheckFail(w) ==
  /\ wk[w].pc \in {"syncChk", "waitChk"}
  /\ Set(w, [wk[w] EXCEPT !.pc = IF @ = "syncChk" THEN "syncErr" ELSE "waitErr"])
  /\ Fault
  /\ UNCHANGED <<storeVars, envVars, cl, auxVars, log>>

\* The deadline of the context: waitTime after the wait began.
WaitDeadline(w) ==
  /\ wk[w].pc \in {"syncPub", "syncChk", "syncErr", "waitPub", "waitChk", "waitErr"}
  /\ wk[w].waited >= 2 * lease
  /\ Set(w, [WorkerInit EXCEPT !.once = FALSE, !.syncEpoch = wk[w].syncEpoch])
  /\ UNCHANGED <<storeVars, envVars, faults, cl, auxVars, log>>

(***************************************************************************)
(* The environment: time passes, nodes reload the schema, ownership moves, *)
(* nodes crash and restart.                                                *)
(***************************************************************************)
\* Time passes, in steps of the wait time 2 * lease; the time a worker has
\* waited and the age of a version are counted up to the wait time.
Tick ==
  /\ lease > 0
  /\ wk' = [w \in Workers |->
              IF wk[w].pc \in {"syncPub", "syncChk", "syncErr", "waitPub", "waitChk", "waitErr"}
              THEN [wk[w] EXCEPT !.waited = 2 * lease] ELSE wk[w]]
  /\ log' = [log EXCEPT !.last =
                [id \in DOMAIN @ |-> [@[id] EXCEPT !.age = 2 * lease]]]
  /\ UNCHANGED <<storeVars, envVars, faults, cl, auxVars>>

Reload(n) ==
  /\ loaded[n] # sver
  /\ loaded' = [loaded EXCEPT ![n] = sver]
  /\ UNCHANGED <<storeVars, nodes, owner, epoch, faults, globalVer, lease, cl, wk,
                 auxVars, log>>

\* The first owner is node 1: the nodes are alike.
OwnerChange(n) ==
  /\ epoch < MaxOwnerChanges
  /\ n # owner
  /\ epoch = 0 /\ owner = 0 => n = 1
  /\ owner' = n
  /\ epoch' = epoch + 1
  /\ UNCHANGED <<storeVars, nodes, faults, globalVer, loaded, lease, cl, wk,
                 auxVars, log>>

\* The node stops at any point and starts again: its workers are back at
\* the start of their loops, its transactions in flight are gone, it gives
\* up ownership, and it loads the schema of the store when it starts.
Crash(n) ==
  /\ Fault
  /\ wk' = [w \in Workers |-> IF w[1] = n THEN WorkerInit ELSE wk[w]]
  /\ owner' = IF owner = n THEN 0 ELSE owner
  /\ loaded' = [loaded EXCEPT ![n] = sver]
  /\ UNCHANGED <<storeVars, nodes, epoch, globalVer, lease, cl, auxVars, log>>

(***************************************************************************)
(* The schema validator (schema_validator.go).  Times are in milliseconds; *)
(* a timestamp of the oracle holds the time in its high bits and a logical *)
(* counter in its low physicalShiftBits bits.  Lists of table IDs are sets: *)
(* the validator only asks whether two lists share an ID.                  *)
(***************************************************************************)
physicalShiftBits == 18

ComposeTS(physical, logical) == physical * (2 ^ physicalShiftBits) + logical

\* oracle.GetTimeFromTS
GetTimeFromTS(ts) == ts \div (2 ^ physicalShiftBits)

\* The zero time.Time: before every time of the oracle.
ZeroTime == -1

ResultSucc == "Succ"
ResultFail == "Fail"
ResultUnknown == "Unknown"

NewSchemaValidator(l) ==
  [isStarted |-> TRUE, lease |-> l, latestSchemaVer |-> 0,
   latestSchemaExpire |-> ZeroTime, deltaSchemaInfos |-> <<>>]

StopKeepVersion(s) ==
  [s EXCEPT !.isStarted = FALSE, !.deltaSchemaInfos = <<>>]

Stop(s) ==
  [s EXCEPT !.isStarted = FALSE, !.latestSchemaVer = 0, !.deltaSchemaInfos = <<>>]

Restart(s) == [s EXCEPT !.isStarted = TRUE]

ResetKeepStarted(s) ==
  [s EXCEPT !.latestSchemaVer = 0, !.deltaSchemaInfos = <<>>]

Reset(s) ==
  [s EXCEPT !.isStarted = TRUE, !.latestSchemaVer = 0, !.deltaSchemaInfos = <<>>]

enqueueNoLimit(s, schemaVersion, relatedTableIDs) ==
  [s EXCEPT !.deltaSchemaInfos =
     Append(@, [schemaVersion |-> schemaVersion,
                relatedTableIDs |-> relatedTableIDs])]

enqueue(s, schemaVersion, relatedTableIDs) ==
  LET q == Append(s.deltaSchemaInfos, [schemaVersion |-> schemaVersion,
                                       relatedTableIDs |-> relatedTableIDs])
  IN  [s EXCEPT !.deltaSchemaInfos =
         IF Len(q) > maxNumberOfDiffsToLoad THEN Tail(q) ELSE q]

UpdateAlwaysEnqueue(s, leaseGrantTS, oldVer, currVer, changedTableIDs) ==
  IF ~s.isStarted THEN s
  ELSE enqueue([s EXCEPT !.latestSchemaVer = currVer,
                         !.latestSchemaExpire =
                            GetTimeFromTS(leaseGrantTS) + (s.lease - 1)],
               currVer, changedTableIDs)

Update(s, leaseGrantTS, oldVer, currVer, changedTableIDs) ==
  IF ~s.isStarted THEN s
  ELSE LET u == [s EXCEPT !.latestSchemaVer = currVer,
                          !.latestSchemaExpire =
                             GetTimeFromTS(leaseGrantTS) + (s.lease - 1)]
       IN  IF currVer # oldVer THEN enqueue(u, currVer, changedTableIDs) ELSE u

hasRelatedTableID(relatedTableIDs, updateTableIDs) ==
  relatedTableIDs \cap updateTableIDs # {}

\* The deltas from the end of the queue back to the first one that is not
\* newer than currVer.
findNewerDeltas(s, currVer) ==
  LET q == s.deltaSchemaInfos
      pos == CHOOSE p \in 1..(Len(q) + 1) :
               /\ \A i \in p..Len(q) : q[i].schemaVersion > currVer
               /\ p = 1 \/ q[p - 1].schemaVersion <= currVer
  IN  SubSeq(q, pos, Len(q))

isRelatedTablesChangedAnyDelta(s, currVer, tableIDs) ==
  \/ Len(s.deltaSchemaInfos) = 0
  \/ \E i \in 1..Len(s.deltaSchemaInfos) :
       hasRelatedTableID(s.deltaSchemaInfos[i].relatedTableIDs, tableIDs)

isRelatedTablesChangedNoStale(s, currVer, tableIDs) ==
  LET newerDeltas == findNewerDeltas(s, currVer)
  IN  \/ Len(s.deltaSchemaInfos) = 0
      \/ \E i \in 1..Len(newerDeltas) :
           hasRelatedTableID(newerDeltas[i].relatedTableIDs, tableIDs)

isRelatedTablesChanged(s, currVer, tableIDs) ==
  LET newerDeltas == findNewerDeltas(s, currVer)
  IN  \/ Len(s.deltaSchemaInfos) = 0
      \/ Len(newerDeltas) = Len(s.deltaSchemaInfos)
      \/ \E i \in 1..Len(newerDeltas) :
           hasRelatedTableID(newerDeltas[i].relatedTableIDs, tableIDs)

\* Lines 203-208: t.After(s.latestSchemaExpire).
expireResultNotBefore(s, txnTS) ==
  IF GetTimeFromTS(txnTS) >= s.latestSchemaExpire THEN ResultUnknown
  ELSE ResultSucc

expireResult(s, txnTS) ==
  IF GetTimeFromTS(txnTS) > s.latestSchemaExpire THEN ResultUnknown
  ELSE ResultSucc

CheckLeaseFirst(s, txnTS, schemaVer, relatedTableIDs) ==
  IF s.lease = 0 THEN ResultSucc
  ELSE IF ~s.isStarted THEN ResultUnknown
  ELSE IF schemaVer < s.latestSchemaVer
       THEN IF relatedTableIDs = {} THEN ResultFail
            ELSE IF isRelatedTablesChanged(s, schemaVer, relatedTableIDs)
                 THEN ResultFail ELSE ResultSucc
  ELSE expireResult(s, txnTS)

Check(s, txnTS, schemaVer, relatedTableIDs) ==
  IF ~s.isStarted THEN ResultUnknown
  ELSE IF s.lease = 0 THEN ResultSucc
  ELSE IF schemaVer < s.latestSchemaVer
       THEN IF relatedTableIDs = {} THEN ResultFail
            ELSE IF isRelatedTablesChanged(s, schemaVer, relatedTableIDs)
                 THEN ResultFail ELSE ResultSucc
  ELSE expireResult(s, txnTS)

NoCheck == [called |-> FALSE, txnTS |-> 0, schemaVer |-> 0, relatedTableIDs |-> {},
            result |-> "none"]

\* What the validator went through: stopped and not yet restarted or reset;
\* Update was called since Stop; the version and the deltas Stop found,
\* kept until the next Update or Reset; the entries appended since the
\* queue was last cleared, the most recent maxNumberOfDiffsToLoad of them,
\* and their number counted up to maxNumberOfDiffsToLoad + 1.
NoVLog == [stopped |-> FALSE, updStopped |-> FALSE, atStop |-> <<>>,
           recent |-> <<>>, appended |-> 0]

ValidatorIdle == sv = NewSchemaValidator(0) /\ chk = NoCheck /\ vlog = NoVLog


(***************************************************************************)
(* The scheduler: clients submit jobs, workers of every node run them.     *)
(***************************************************************************)
JobChoices == {<<AddIndexStr, 1>>, <<"create table", 1>>, <<"truncate table", 2>>}

NoLog == [enq |-> {}, rets |-> <<>>, last |-> <<>>, tooLarge |-> {}]

Init ==
  /\ gid = 0 /\ sver = 0 /\ diffs = <<>> /\ hist = <<>>
  /\ queue = [q \in WorkerTypes |-> <<>>]
  /\ nodes \in {{1}, Nodes}
  /\ owner = 0 /\ epoch = 0 /\ faults = 0
  /\ globalVer = 0 /\ loaded = [n \in Nodes |-> 0]
  /\ lease = 0
  /\ cl = [c \in Clients |-> ClientInit]
  /\ wk = [w \in Workers |-> WorkerInit]
  /\ probe = NoProbe
  /\ ValidatorIdle
  /\ log = NoLog

\* The steps of the store protocol.
NextCore ==
  \/ \E c \in Clients, jc \in JobChoices : AddDDLJob(c, jc[1], jc[2])
  \/ \E c \in Clients : AddRetry(c)
  \/ \E c \in Clients : AddFail(c)
  \/ \E c \in Clients : AddCommit(c)
  \/ \E w \in Live : PassNotOwner(w)
  \/ \E w \in Live : PassNoJob(w)
  \/ \E w \in Live, readErr \in BOOLEAN : PassDependency(w, readErr)
  \/ \E w \in Live, getErr \in BOOLEAN : PassSync(w, getErr)
  \/ \E w \in Live : PassFinish(w)
  \/ \E w \in Live : PassRun(w)
  \/ \E w \in Live : Commit(w)
  \/ \E w \in Live : CommitFail(w)
  \/ \E n \in nodes \cup {0} : OwnerChange(n)
  \/ \E n \in nodes : Crash(n)

\* The steps of the schema synchronization.
NextSync ==
  \/ \E w \in Live, ok \in BOOLEAN : Publish(w, ok)
  \/ \E w \in Live : WaitSynced(w)
  \/ \E w \in Live : CheckFail(w)
  \/ \E w \in Live : WaitDeadline(w)
  \/ \E n \in nodes : Reload(n)
  \/ Tick

\* The scheduler with the schema lease set to zero: no pass waits.
Next == NextCore

Spec == Init /\ [][Next]_vars

\* The scheduler with a schema lease of one tick: a cluster of one node in
\* which nothing fails, or a cluster of every node with failures.
InitSync ==
  /\ gid = 0 /\ sver = 0 /\ diffs = <<>> /\ hist = <<>>
  /\ queue = [q \in WorkerTypes |-> <<>>]
  /\ \/ nodes = {1} /\ faults = MaxFaults
     \/ nodes = Nodes /\ faults = 0
  /\ owner = 0 /\ epoch = 0
  /\ globalVer = 0 /\ loaded = [n \in Nodes |-> 0]
  /\ lease = 1
  /\ cl = [c \in Clients |-> ClientInit]
  /\ wk = [w \in Workers |-> WorkerInit]
  /\ probe = NoProbe
  /\ ValidatorIdle
  /\ log = NoLog

SpecSync == InitSync /\ [][NextCore \/ NextSync]_vars


(***************************************************************************)
(* Properties of the store protocol.                                       *)
(***************************************************************************)
\* C1: in every state each job that was enqueued is in exactly one place,
\* once: the queue it was enqueued on, or the history store; never in
\* both and never in neither.
C1_QueueXorHistory ==
  \A e \in log.enq :
    /\ (e.id \in SeqIDs(queue[e.q])) # (e.id \in DOMAIN hist)
    /\ e.id \notin SeqIDs(queue[OtherQueue(e.q)])
    /\ Cardinality({i \in 1..Len(queue[e.q]) : queue[e.q][i].id = e.id}) <= 1

\* A job reached the history store in a behaviour with a failure.
C1_Witness == faults > 0 /\ \E e \in log.enq : e.id \in DOMAIN hist

\* C2 as stated: every record of the history store has State Synced or
\* Cancelled.
C2_SyncedOrCancelled ==
  \A id \in DOMAIN hist : hist[id].st \in {"synced", "cancelled"}

\* C2, amended: every record of the history store has State Synced,
\* Cancelled or RollbackDone; a rolled back job is finished with the State
\* it has.
C2_TerminalInHistory ==
  \A id \in DOMAIN hist : hist[id].st \in {"synced", "cancelled", "rollback done"}

\* The history store holds a rolled back job.
C2_Witness == \E id \in DOMAIN hist : hist[id].st = "rollback done"

\* C3: the schema versions returned by the successful calls of
\* updateSchemaVersion whose passes committed increase by exactly 1 from
\* each to the next.
C3_ReturnsConsecutive ==
  \A i \in 1..(Len(log.rets) - 1) : log.rets[i + 1] = log.rets[i] + 1

\* C4: in every store state each schema version from 1 to the schema
\* version counter has a SchemaDiff stored under it.
C4_EveryVersionHasDiff == \A v \in 1..sver : v \in DOMAIN diffs

\* The worker is in the step dispatch of a pass: runDDLJob was called in
\* its transaction, which has not ended.
Dispatching(w) == wk[w].pc = "commit" /\ wk[w].ran

\* C5 as stated: for a queue, at most one node's worker is in the step
\* dispatch at any instant.
C5_OneDispatcher ==
  \A w1, w2 \in Workers :
    Dispatching(w1) /\ Dispatching(w2) /\ w1[2] = w2[2] => w1[1] = w2[1]

\* C5, amended: workers of two nodes that are in the step dispatch for the
\* same queue at the same instant passed the ownership check of their
\* passes in different ownership terms.
C5_OnePerTerm ==
  \A w1, w2 \in Workers :
    Dispatching(w1) /\ Dispatching(w2) /\ w1[2] = w2[2] /\ w1[1] # w2[1]
      => wk[w1].chkEpoch # wk[w2].chkEpoch

\* Workers of two nodes are in the step dispatch for the same queue.
C5_Witness ==
  \E w1, w2 \in Workers :
    Dispatching(w1) /\ Dispatching(w2) /\ w1[2] = w2[2] /\ w1[1] # w2[1]

\* C9: a job enqueued by an attempt whose buildJobDependence found no job
\* of the other queue to depend on is stored with DependencyID 0.
C9_NoConflictNoDependency ==
  \A e \in log.enq : ~e.found => e.dep = noneDependencyJob


\* C11: within one queue jobs reach the history store in the order in
\* which they were enqueued, and a job behind the head of its queue was
\* never stepped: it is as it was enqueued.
C11_QueueOrder ==
  /\ \A e1, e2 \in log.enq :
       e1.q = e2.q /\ e1.id < e2.id /\ e2.id \in DOMAIN hist
         => e1.id \in DOMAIN hist
  /\ \A q \in WorkerTypes : \A i \in 2..Len(queue[q]) :
       /\ queue[q][i - 1].id < queue[q][i].id
       /\ \E e \in log.enq :
            queue[q][i] = [NoJob EXCEPT !.id = e.id, !.tp = queue[q][i].tp,
                                        !.tbl = queue[q][i].tbl, !.dep = e.dep]

\* Two jobs of one queue reached the history store.
C11_Witness ==
  \E e1, e2 \in log.enq :
    e1.q = e2.q /\ e1.id < e2.id /\ {e1.id, e2.id} \subseteq DOMAIN hist

\* The IDs of the jobs of the live queues and of the history store.
StoredIDs ==
  SeqIDs(queue[generalWorker]) \cup SeqIDs(queue[addIdxWorker]) \cup DOMAIN hist

\* C13: in every committed state the IDs taken from the global ID counter
\* are the IDs of the jobs that were inserted, and no two inserted jobs
\* share an ID, whatever attempts of addDDLJob failed or were retried.
C13_IDConsumedIffInserted ==
  /\ {e.id : e \in log.enq} = 1..gid
  /\ \A e1, e2 \in log.enq : e1.id = e2.id => e1 = e2
  /\ StoredIDs = 1..gid
  /\ Len(queue[generalWorker]) + Len(queue[addIdxWorker])
       + Cardinality(DOMAIN hist) = gid

\* A job was inserted with the first ID, and an attempt that is a retry
\* after a failed one holds the next ID and can commit.
C13_Witness ==
  /\ gid = 1 /\ 1 \in StoredIDs
  /\ \E c \in Clients :
       /\ cl[c].pc = "txn" /\ cl[c].tries > 0 /\ ~cl[c].doomed
       /\ cl[c].job.id = 2

\* C23: when UpdateDDLJob fails with ErrEntryTooLarge, the transaction of
\* that pass removes the job from its queue and puts it into the history
\* store, cancelled, with schema state none, its error recorded and its
\* BinlogInfo cleaned; after it the job is in no queue and in no pass that
\* can commit, and the client finds the error in the history store.
C23_TooLargeCancelled ==
  /\ \A w \in Workers :
       wk[w].pc = "commit" /\ wk[w].tooLarge =>
         /\ wk[w].tx.deq /\ wk[w].tx.upd = NoJob
         /\ wk[w].tx.addHist = [wk[w].job EXCEPT !.st = "cancelled", !.ss = 0,
                                                 !.err = TRUE, !.binlog = FALSE]
         /\ wk[w].tx.addHist = wk[w].job
  /\ \A id \in log.tooLarge :
       /\ id \notin SeqIDs(queue[generalWorker]) \cup SeqIDs(queue[addIdxWorker])
       /\ id \in DOMAIN hist
       /\ IsCancelled(hist[id]) /\ hist[id].ss = 0
       /\ hist[id].err /\ ~hist[id].binlog
       /\ \A w \in Workers :
            wk[w].pc = "commit" /\ ~wk[w].doomed => wk[w].job.id # id

\* The update of a job whose step had made it done and bumped the schema
\* version was too large; the job is in the history store.
C23_Witness ==
  \E id \in log.tooLarge : id \in DOMAIN hist /\ sver > 0

\* C24: a panic in runDDLJob is caught in the pass: when UpdateDDLJob
\* succeeds and the transaction of the pass commits, the job is the head
\* of its queue with State Cancelling, nothing is put into the history
\* store, and the worker is in its loop.
C24_PanicCancelling ==
  [][\A w \in Workers :
       wk[w].pc = "commit" /\ wk[w].panic /\ ~wk[w].tooLarge /\ Commit(w) =>
         LET q == QueueOfType(typeStr(w[2]))
         IN  /\ queue'[q] # <<>>
             /\ queue'[q][1].id = wk[w].job.id
             /\ IsCancelling(queue'[q][1])
             /\ queue'[q][1] = wk[w].job
             /\ Len(queue'[q]) = Len(queue[q])
             /\ hist' = hist /\ sver' = sver
             /\ wk'[w].pc = "loop"]_vars

\* The head of a queue is stored with State Cancelling and no error: the
\* pass of a panic committed.
C24_Witness ==
  \E q \in WorkerTypes :
    /\ queue[q] # <<>>
    /\ IsCancelling(queue[q][1]) /\ ~queue[q][1].err
    /\ \E w \in Workers : w[2] = q /\ wk[w].pc = "loop" /\ ~wk[w].once

\* C27: while the head job of a queue has a DependencyID that is not zero
\* and no job with that ID is in the history store, no step changes the
\* stored job, no worker holds a transaction for it that can commit, and a
\* pass of a worker of the queue dispatches nothing and leaves the queues,
\* the schema version counter and the history store unchanged.
C27_UnmetDependencyFrame ==
  [][\A q \in WorkerTypes :
       LET head == getFirstDDLJob(queue, q)
       IN  head # NoJob /\ head.dep # noneDependencyJob
             /\ GetHistoryDDLJob(hist, head.dep) = NoJob =>
             /\ queue'[q] # <<>> /\ queue'[q][1] = head
             /\ \A w \in Workers :
                  QueueOfType(typeStr(w[2])) = q =>
                    /\ wk[w].pc = "commit" /\ ~wk[w].doomed
                         => wk[w].job.id # head.id
                    /\ wk[w].pc = "loop" =>
                         /\ wk'[w].pc = "loop"
                         /\ wk'[w] # wk[w] =>
                              queue' = queue /\ sver' = sver /\ hist' = hist]_vars

\* The head job of a queue waits for a job of the other queue that the
\* owner has started to run, and the owner's worker of the waiting queue
\* is at the top of its loop.
C27_Witness ==
  \E q \in WorkerTypes :
    LET head == getFirstDDLJob(queue, q)
        other == getFirstDDLJob(queue, OtherQueue(q))
    IN  /\ head # NoJob /\ head.dep # noneDependencyJob
        /\ GetHistoryDDLJob(hist, head.dep) = NoJob
        /\ other # NoJob /\ other.id = head.dep /\ IsRunning(other)
        /\ sver > 0
        /\ \E w \in Workers :
             /\ QueueOfType(typeStr(w[2])) = q /\ isOwner(w[1])
             /\ wk[w].pc = "loop"

\* C28: a pass whose step returned an error and left the job not Cancelled
\* writes the job back at index 0 of its queue with Error set and
\* ErrorCount one higher than stored, removes nothing from the queue and
\* adds nothing to history, and leaves the job where the next pass of the
\* owner dispatches it: at the head, not finished, its dependency done.
C28_StepErrorKeepsJob ==
  [][\A w \in Workers :
       wk[w].pc = "commit" /\ wk[w].runJobErr /\ ~wk[w].tooLarge
         /\ ~IsCancelled(wk[w].job) =>
         LET q == QueueOfType(typeStr(w[2]))
         IN  /\ wk[w].tx.upd = wk[w].job /\ wk[w].job.err
             /\ ~wk[w].tx.deq /\ wk[w].tx.addHist = NoJob
             /\ Commit(w) =>
                  /\ Len(queue'[q]) = Len(queue[q])
                  /\ queue'[q][1] = [wk[w].job EXCEPT !.errc = queue[q][1].errc + 1]
                  /\ queue'[q][1].id = queue[q][1].id
                  /\ queue'[q][1].err
                  /\ hist' = hist
                  /\ queue'[q][1].st \in {"running", "rollingback", "cancelling"}
                  /\ isDependencyJobDone(hist', queue'[q][1], FALSE).done
                  /\ wk'[w].pc = "loop" /\ ~wk'[w].once]_vars

\* The head of a queue is stored Running with the error of a step and an
\* ErrorCount of one, and the worker that stored it is in its loop.
C28_Witness ==
  \E w \in Workers :
    LET q == QueueOfType(typeStr(w[2]))
    IN  /\ queue[q] # <<>>
        /\ IsRunning(queue[q][1]) /\ queue[q][1].err /\ queue[q][1].errc = 1
        /\ wk[w].pc = "loop" /\ ~wk[w].once /\ isOwner(w[1])

ProbeIDs == 1..MaxProbeID

RECURSIVE SortedSeq(_)
SortedSeq(S) == IF S = {} THEN <<>> ELSE <<Min(S)>> \o SortedSeq(S \ {Min(S)})

\* The queue of the jobs with the IDs I, of type tp, on the tables tb[id].
JobSeq(I, tp, tb) ==
  LET ids == SortedSeq(I)
  IN  [i \in 1..Len(ids) |-> [NoJob EXCEPT !.id = ids[i], !.tp = tp, !.tbl = tb[ids[i]]]]

InitQueues ==
  \E G, A \in SUBSET ProbeIDs :
    /\ G \cap A = {}
    /\ Cardinality(G) <= MaxQueueLen /\ Cardinality(A) <= MaxQueueLen
    /\ \E tg \in [G -> Tables], ta \in [A -> Tables] :
         queue = [q \in WorkerTypes |->
                    IF q = generalWorker THEN JobSeq(G, "create table", tg)
                    ELSE JobSeq(A, AddIndexStr, ta)]
    /\ hist = <<>>

InitHistory ==
  /\ queue = [q \in WorkerTypes |-> <<>>]
  /\ \E H \in SUBSET ProbeIDs :
       hist = [id \in H |-> [NoJob EXCEPT !.id = id, !.tp = "create table",
                                          !.tbl = 1, !.st = "synced"]]

InitDep ==
  /\ InitQueues \/ InitHistory
  /\ gid = MaxProbeID /\ sver = 0 /\ diffs = <<>>
  /\ nodes = {1} /\ owner = 0 /\ epoch = 0 /\ faults = 0
  /\ globalVer = 0 /\ loaded = [n \in Nodes |-> 0]
  /\ lease = 0
  /\ cl = [c \in Clients |-> ClientInit]
  /\ wk = [w \in Workers |-> WorkerInit]
  /\ probe = NoProbe
  /\ ValidatorIdle
  /\ log = NoLog

probeVars == <<storeVars, envVars, faults, cl, wk, log>>

\* buildJobDependence for a job of type tp on table tbl with the ID id,
\* which no job of the store has, and the DependencyID dep it comes with.
ProbeBuild(tp, tbl, id, dep) ==
  LET curJob == [NewJob(tp, tbl) EXCEPT !.id = id, !.dep = dep]
  IN  /\ hist = <<>>
      /\ id \notin SeqIDs(queue[generalWorker]) \cup SeqIDs(queue[addIdxWorker])
      /\ probe' = [fn |-> "build", in |-> curJob,
                   out |-> buildJobDependence(queue, curJob),
                   done |-> FALSE, err |-> FALSE]
      /\ UNCHANGED probeVars
      /\ UNCHANGED <<sv, chk, vlog>>

\* isDependencyJobDone for a job with the DependencyID dep.
ProbeDone(dep, readErr) ==
  LET job == [NewJob("create table", 1) EXCEPT !.id = MaxProbeID + 1, !.dep = dep]
      r == isDependencyJobDone(hist, job, readErr)
  IN  /\ queue = [q \in WorkerTypes |-> <<>>]
      /\ probe' = [fn |-> "done", in |-> job, out |-> r.job, done |-> r.done,
                   err |-> r.err]
      /\ UNCHANGED probeVars
      /\ UNCHANGED <<sv, chk, vlog>>

NextDep ==
  \/ \E tp \in {AddIndexStr, "create table"}, tbl \in Tables,
        id \in 1..(MaxProbeID + 1), dep \in {noneDependencyJob, MaxProbeID} :
       ProbeBuild(tp, tbl, id, dep)
  \/ \E dep \in 0..MaxProbeID, readErr \in BOOLEAN : ProbeDone(dep, readErr)

SpecDep == InitDep /\ [][NextDep]_vars

\* The IDs of the jobs of the other queue that are older than job and on
\* which job depends.
Candidates(job) ==
  LET other == queue[OtherQueue(QueueOfType(job.tp))]
  IN  {other[i].id : i \in {k \in 1..Len(other) :
                              other[k].id < job.id /\ IsDependentOn(job, other[k])}}

\* C8: buildJobDependence sets the DependencyID of the job to the largest
\* ID among the jobs of the other queue that have a smaller ID than the
\* job and on which the job depends.
C8_LargestSmallerDependency ==
  probe.fn = "build" /\ Candidates(probe.in) # {}
    => probe.out.dep = Max(Candidates(probe.in))

\* buildJobDependence chose among several jobs.
C8_Witness ==
  /\ probe.fn = "build"
  /\ Cardinality(Candidates(probe.in)) >= 2
  /\ probe.out.dep = Max(Candidates(probe.in))

\* C10: isDependencyJobDone, when the history read succeeds, returns true
\* exactly when the DependencyID is 0 or the history store holds a record
\* with that ID; it sets the DependencyID to 0 when it finds the record
\* and leaves it unchanged when it returns false, a failed read included.
C10_DependencyDone ==
  probe.fn = "done" =>
    /\ ~probe.err =>
         (probe.done <=> (probe.in.dep = noneDependencyJob
                          \/ probe.in.dep \in DOMAIN hist))
    /\ probe.done /\ probe.in.dep # noneDependencyJob
         => probe.out.dep = noneDependencyJob
    /\ ~probe.done => probe.out.dep = probe.in.dep
    /\ probe.out = [probe.in EXCEPT !.dep = probe.out.dep]

\* isDependencyJobDone found the record of the dependency and cleared the
\* DependencyID.
C10_Witness ==
  /\ probe.fn = "done"
  /\ probe.in.dep # noneDependencyJob /\ probe.in.dep \in DOMAIN hist
  /\ probe.done /\ probe.out.dep = noneDependencyJob


(***************************************************************************)
(* Properties of the schema synchronization.                               *)
(***************************************************************************)
(* Progress of the scheduler.  Node 1 holds the ownership and keeps it, no *)
(* operation fails, and a job may also be put into the default queue in a  *)
(* transaction of its own without buildJobDependence, as                   *)
(* TestBackwardCompatibility does (lines 986-1000).  Every worker runs its *)
(* loop again and again (the ticker of start, lines 1949-1961), and a step *)
(* function that is called again and again completes its step; this is     *)
(* asked of the workers of the owner only.                                 *)
(***************************************************************************)
InitLive ==
  /\ gid = 0 /\ sver = 0 /\ diffs = <<>> /\ hist = <<>>
  /\ queue = [q \in WorkerTypes |-> <<>>]
  /\ nodes \in {{1}, Nodes}
  /\ owner = 1 /\ epoch = MaxOwnerChanges /\ faults = MaxFaults
  /\ globalVer = 0 /\ loaded = [n \in Nodes |-> 0]
  /\ lease = 0
  /\ cl = [c \in Clients |-> ClientInit]
  /\ wk = [w \in Workers |-> WorkerInit]
  /\ probe = NoProbe
  /\ ValidatorIdle
  /\ log = NoLog

\* Lines 986-1000: GenGlobalID and EnQueueDDLJob on meta.NewMeta(txn), the
\* default queue, in one transaction that commits; DependencyID is not set.
EnQueueDirect(c, tp, tbl) ==
  LET job == [NewJob(tp, tbl) EXCEPT !.id = gid + 1]
      q == generalWorker
      W == {<<"gid", 0>>, <<"qm", q>>, <<"qe", job.id>>}
  IN  /\ cl[c].pc = "idle"
      /\ c <= JobBudget
      /\ IF c = 1 THEN TRUE ELSE cl[c - 1].pc # "idle"
      /\ gid' = job.id
      /\ queue' = [queue EXCEPT ![q] = Append(@, job)]
      /\ cl' = [DoomClients(W, c) EXCEPT ![c] = [ClientInit EXCEPT !.pc = "done"]]
      /\ wk' = DoomWorkers(W, <<0, 0>>)
      /\ log' = [log EXCEPT !.enq = @ \cup {[id |-> job.id, q |-> q, dep |-> job.dep,
                                              found |-> FALSE]}]
      /\ UNCHANGED <<sver, diffs, hist, envVars, faults, auxVars>>

\* The steps of the worker w.
WorkerStep(w) ==
  /\ w \in Live
  /\ \/ PassNotOwner(w)
     \/ PassNoJob(w)
     \/ PassDependency(w, FALSE)
     \/ PassSync(w, FALSE)
     \/ PassFinish(w)
     \/ PassRun(w)
     \/ Commit(w)
     \/ CommitFail(w)

\* A pass of the worker w in which the step function changes the job.
StepCompletes(w) ==
  /\ w \in Live
  /\ PassRun(w)
  /\ wk'[w].job # getFirstDDLJob(queue, QueueOfType(typeStr(w[2])))

NextLive ==
  \/ \E c \in Clients, jc \in JobChoices : AddDDLJob(c, jc[1], jc[2])
  \/ \E c \in Clients : AddRetry(c)
  \/ \E c \in Clients : AddFail(c)
  \/ \E c \in Clients : AddCommit(c)
  \/ \E c \in Clients, jc \in JobChoices : EnQueueDirect(c, jc[1], jc[2])
  \/ \E w \in Workers : WorkerStep(w)

SpecLive ==
  /\ InitLive /\ [][NextLive]_vars
  /\ \A tp \in WorkerTypes :
       WF_vars(WorkerStep(<<1, tp>>)) /\ SF_vars(StepCompletes(<<1, tp>>))

\* C14: with an owner, fair scheduling and step functions that complete
\* without error, every job in a live queue, also one put there without
\* dependency computation, is eventually in the history store, synced and
\* without an error.
C14_EveryJobSynced ==
  \A id \in 1..MaxJobs :
    (id \in SeqIDs(queue[generalWorker]) \cup SeqIDs(queue[addIdxWorker]))
      ~> (id \in DOMAIN hist /\ IsSynced(hist[id]) /\ ~hist[id].err)

\* A job that was put into the default queue without dependency
\* computation is in the history store, synced and without an error.
C14_Witness ==
  \E e \in log.enq :
    /\ e.q = generalWorker /\ e.id \in DOMAIN hist
    /\ hist[e.id].tp = AddIndexStr
    /\ IsSynced(hist[e.id]) /\ ~hist[e.id].err

(***************************************************************************)
(* finishDDLJob applied to a job that is already in the history store: a   *)
(* second run of the function for the same job, in a transaction of the    *)
(* worker of the job's queue that commits.                                  *)
(***************************************************************************)

\* meta.DeQueueDDLJob: pops the head of the queue; an empty queue gives no
\* job and no error.
DeQueueDDLJob(qs, q) == [qs EXCEPT ![q] = IF @ = <<>> THEN @ ELSE Tail(@)]

InitFin ==
  /\ \E G, A, H \in SUBSET ProbeIDs :
       /\ G \cap A = {} /\ H \cap (G \cup A) = {} /\ H # {}
       /\ Cardinality(G) <= MaxQueueLen /\ Cardinality(A) <= MaxQueueLen
       /\ \E tg \in [G -> Tables] :
            queue = [q \in WorkerTypes |->
                       IF q = generalWorker THEN JobSeq(G, "create table", tg)
                       ELSE JobSeq(A, AddIndexStr, [id \in A |-> 1])]
       /\ \E tps \in [H -> {AddIndexStr, "create table"}] :
            hist = [id \in H |-> [NoJob EXCEPT !.id = id, !.tp = tps[id],
                                               !.tbl = 1, !.st = "synced"]]
  /\ gid = MaxProbeID /\ sver = 0 /\ diffs = <<>>
  /\ nodes = {1} /\ owner = 0 /\ epoch = 0 /\ faults = 0
  /\ globalVer = 0 /\ loaded = [n \in Nodes |-> 0]
  /\ lease = 0
  /\ cl = [c \in Clients |-> ClientInit]
  /\ wk = [w \in Workers |-> WorkerInit]
  /\ probe = NoProbe
  /\ ValidatorIdle
  /\ log = NoLog

\* finishDDLJob for the job with the ID id of the history store, by the
\* worker of the queue of the job; the transaction commits.
ProbeFinish(id) ==
  LET job == GetHistoryDDLJob(hist, id)
      q == QueueOfType(job.tp)
      tx == finishDDLJob(NoTx, job)
  IN  /\ probe.fn = "none"
      /\ id \in DOMAIN hist
      /\ queue' = IF tx.deq THEN DeQueueDDLJob(queue, q) ELSE queue
      /\ hist' = IF tx.addHist # NoJob THEN PutHistory(hist, tx.addHist) ELSE hist
      /\ probe' = [fn |-> "finish", in |-> job,
                   out |-> [queue |-> queue, hist |-> hist],
                   done |-> FALSE, err |-> FALSE]
      /\ UNCHANGED <<gid, sver, diffs, envVars, faults, cl, wk, log>>
      /\ UNCHANGED <<sv, chk, vlog>>

NextFin == \E id \in ProbeIDs : ProbeFinish(id)

SpecFin == InitFin /\ [][NextFin]_vars

\* C12: a second run of finishDDLJob for a job that is already in the
\* history store changes nothing: the live queues hold the jobs they held
\* before it and the history store holds the records it held before it.
C12_SecondFinishNoChange ==
  probe.fn = "finish" => queue = probe.out.queue /\ hist = probe.out.hist

(***************************************************************************)
\* C6: a job is in the history store with State Synced only if, for the
\* schema version its last version-changing pass committed, every node of
\* the cluster has reported a version at least that, or 2 * lease has
\* passed since the commit.
C6_SyncedAfterPropagation ==
  \A id \in DOMAIN hist :
    hist[id].st = "synced" /\ id \in DOMAIN log.last
      => \/ AllSynced(log.last[id].ver)
         \/ log.last[id].age >= 2 * lease

\* The worker is in the waitSchemaChanged call that follows the commit of
\* its pass.
WaitsAfterCommit(w) == wk[w].pc \in {"waitPub", "waitChk", "waitErr"}

\* C7 as stated: while a worker waits for the propagation of the schema
\* version its pass committed, no later schema version is committed.
C7_GloballySerialized ==
  \A w \in Workers : WaitsAfterCommit(w) => sver = wk[w].waitVer

\* C7, amended: while a worker waits for the propagation of the schema
\* version its pass committed and ownership has not changed since the pass,
\* every later schema version that has a SchemaDiff was committed for a
\* job of the other queue.
C7_SerializedPerQueue ==
  \A w \in Workers :
    WaitsAfterCommit(w) /\ wk[w].chkEpoch = epoch
      => \A v \in DOMAIN diffs :
           v > wk[w].waitVer
             => QueueOfType(diffs[v].tp) # QueueOfType(typeStr(w[2]))

\* A worker still waits for its version while the worker of the other
\* queue has committed the next one.
C7_Witness ==
  \E w \in Workers :
    /\ WaitsAfterCommit(w) /\ wk[w].chkEpoch = epoch
    /\ \E v \in DOMAIN diffs : v > wk[w].waitVer

(***************************************************************************)
(* The schema validator under calls of Update, Check, Stop, Restart and    *)
(* Reset, one call at a time.  The schema versions given to Update come    *)
(* from the schema version counter of the store and never decrease.        *)
(***************************************************************************)
Versions == 0..MaxVer
GrantTSs == {ComposeTS(p, l) : p \in 1..MaxGrant, l \in {0, 1}}
TxnTSs == {ComposeTS(p, l) : p \in 1..(MaxGrant + LeaseMs), l \in {0, 1}}
TableSets == SUBSET Tables

schedVars == <<storeVars, envVars, faults, cl, wk, probe, log>>

InitVal ==
  /\ gid = 0 /\ sver = 0 /\ diffs = <<>> /\ hist = <<>>
  /\ queue = [q \in WorkerTypes |-> <<>>]
  /\ nodes = {1} /\ owner = 0 /\ epoch = 0 /\ faults = 0
  /\ globalVer = 0 /\ loaded = [n \in Nodes |-> 0]
  /\ lease = 0
  /\ cl = [c \in Clients |-> ClientInit]
  /\ wk = [w \in Workers |-> WorkerInit]
  /\ probe = NoProbe
  /\ log = NoLog
  /\ \E l \in {0, LeaseMs} : sv = NewSchemaValidator(l)
  /\ chk = NoCheck
  /\ vlog = NoVLog

\* The last n elements of q.
LastN(q, n) == IF Len(q) > n THEN SubSeq(q, Len(q) - n + 1, Len(q)) ELSE q

CallUpdate(leaseGrantTS, oldVer, currVer, changedTableIDs) ==
  LET appends == ~vlog.stopped /\ oldVer # currVer
      entry == [schemaVersion |-> currVer, relatedTableIDs |-> changedTableIDs]
  IN  /\ ~chk.called
      /\ oldVer <= currVer
      /\ currVer >= sv.latestSchemaVer
      /\ sv' = Update(sv, leaseGrantTS, oldVer, currVer, changedTableIDs)
      /\ vlog' = [vlog EXCEPT
                    !.updStopped = IF vlog.stopped THEN TRUE ELSE @,
                    !.atStop = <<>>,
                    !.recent = IF appends
                               THEN LastN(Append(@, entry), maxNumberOfDiffsToLoad)
                               ELSE @,
                    !.appended = IF appends
                                 THEN Min({@ + 1, maxNumberOfDiffsToLoad + 1})
                                 ELSE @]
      /\ UNCHANGED <<schedVars, chk>>

CallStop ==
  /\ ~chk.called
  /\ sv' = Stop(sv)
  /\ vlog' = [NoVLog EXCEPT
                !.stopped = TRUE,
                !.atStop = <<[latestSchemaVer |-> sv.latestSchemaVer,
                              deltaSchemaInfos |-> sv.deltaSchemaInfos]>>]
  /\ UNCHANGED <<schedVars, chk>>

CallRestart ==
  /\ ~chk.called
  /\ sv' = Restart(sv)
  /\ vlog' = [vlog EXCEPT !.stopped = FALSE, !.updStopped = FALSE]
  /\ UNCHANGED <<schedVars, chk>>

CallReset ==
  /\ ~chk.called
  /\ sv' = Reset(sv)
  /\ vlog' = NoVLog
  /\ UNCHANGED <<schedVars, chk>>

\* The caller has seen the result of Check.
CheckReturn ==
  /\ chk.called
  /\ chk' = NoCheck
  /\ UNCHANGED <<schedVars, sv, vlog>>

CallCheck(txnTS, schemaVer, relatedTableIDs) ==
  /\ ~chk.called
  /\ chk' = [called |-> TRUE, txnTS |-> txnTS, schemaVer |-> schemaVer,
             relatedTableIDs |-> relatedTableIDs,
             result |-> Check(sv, txnTS, schemaVer, relatedTableIDs)]
  /\ UNCHANGED <<schedVars, sv, vlog>>

NextVal ==
  \/ \E g \in GrantTSs, o, n \in Versions, ids \in TableSets :
       CallUpdate(g, o, n, ids)
  \/ CallStop
  \/ CallRestart
  \/ CallReset
  \/ \E ts \in TxnTSs, v \in Versions, ids \in TableSets : CallCheck(ts, v, ids)
  \/ CheckReturn

SpecVal == InitVal /\ [][NextVal]_vars

\* The delta entries that are newer than the schema version v.
NewerThan(v) ==
  {i \in 1..Len(sv.deltaSchemaInfos) : sv.deltaSchemaInfos[i].schemaVersion > v}

\* C15: a started validator with a lease, asked about a schema version
\* below the latest one, answers Succ exactly when there are related
\* tables, some delta is not newer than the version, and no delta that is
\* newer than the version lists a related table; it answers Fail otherwise.
C15_StaleVersion ==
  chk.called /\ sv.isStarted /\ sv.lease # 0
      /\ chk.schemaVer < sv.latestSchemaVer
    => chk.result =
         IF /\ chk.relatedTableIDs # {}
            /\ NewerThan(chk.schemaVer) # 1..Len(sv.deltaSchemaInfos)
            /\ \A i \in NewerThan(chk.schemaVer) :
                 sv.deltaSchemaInfos[i].relatedTableIDs
                   \cap chk.relatedTableIDs = {}
         THEN ResultSucc ELSE ResultFail

\* Check answered Succ for a version below the latest one with two deltas
\* in the queue, the newer of them on another table.
C15_Witness ==
  /\ chk.called /\ sv.isStarted /\ sv.lease # 0
  /\ chk.schemaVer < sv.latestSchemaVer
  /\ Len(sv.deltaSchemaInfos) = 2
  /\ NewerThan(chk.schemaVer) = {2}
  /\ sv.deltaSchemaInfos[1].relatedTableIDs \cap chk.relatedTableIDs # {}
  /\ chk.result = ResultSucc

\* C16: a started validator with a lease, asked about a schema version that
\* is not below the latest one, answers Succ when the time of the
\* transaction timestamp is not after the expiry of the lease and Unknown
\* when it is; it never answers Fail.
C16_CurrentVersion ==
  chk.called /\ sv.isStarted /\ sv.lease # 0
      /\ chk.schemaVer >= sv.latestSchemaVer
    => chk.result =
         IF chk.txnTS < ComposeTS(sv.latestSchemaExpire + 1, 0)
         THEN ResultSucc ELSE ResultUnknown

\* Check answered Succ for a transaction timestamp in the last millisecond
\* of the lease, with a logical part.
C16_Witness ==
  /\ chk.called /\ sv.isStarted /\ sv.lease # 0
  /\ chk.schemaVer >= sv.latestSchemaVer
  /\ chk.txnTS = ComposeTS(sv.latestSchemaExpire, 1)
  /\ chk.result = ResultSucc

\* C17: from Stop until the next Restart or Reset every Check answers
\* Unknown, whatever its arguments, the lease and the calls of Update made
\* since Stop.
C17_StoppedUnknown ==
  chk.called /\ vlog.stopped => chk.result = ResultUnknown

\* Check answered on a stopped validator without a lease, after a call of
\* Update since Stop.
C17_Witness ==
  /\ chk.called /\ vlog.stopped /\ vlog.updStopped
  /\ sv.lease = 0
  /\ chk.result = ResultUnknown

\* The validator with the version and the deltas that Stop found.
AsAtStop ==
  [sv EXCEPT !.latestSchemaVer = vlog.atStop[1].latestSchemaVer,
             !.deltaSchemaInfos = vlog.atStop[1].deltaSchemaInfos]

\* C18: after Stop and then Restart, with no Update since Stop, Check
\* answers as it does with the latest schema version and the deltas that
\* the validator held when Stop was called.
C18_RestartKeepsVersion ==
  chk.called /\ ~vlog.stopped /\ vlog.atStop # <<>>
    => chk.result = Check(AsAtStop, chk.txnTS, chk.schemaVer, chk.relatedTableIDs)

\* C19: the delta queue never holds more than maxNumberOfDiffsToLoad
\* entries, and when more were appended since it was last cleared it holds
\* the most recently appended maxNumberOfDiffsToLoad of them, in the order
\* in which they were appended.
C19_BoundedDeltas ==
  /\ Len(sv.deltaSchemaInfos) <= maxNumberOfDiffsToLoad
  /\ vlog.appended > maxNumberOfDiffsToLoad
       => /\ Len(sv.deltaSchemaInfos) = maxNumberOfDiffsToLoad
          /\ sv.deltaSchemaInfos = vlog.recent

\* More entries than the queue holds were appended since the last clear,
\* and the oldest entry of the queue differs from the newest.
C19_Witness ==
  /\ vlog.appended > maxNumberOfDiffsToLoad
  /\ Len(sv.deltaSchemaInfos) = maxNumberOfDiffsToLoad
  /\ sv.deltaSchemaInfos[1] # sv.deltaSchemaInfos[maxNumberOfDiffsToLoad]

\* C20: a call of Update on a started validator sets the latest schema
\* version to the new version and the expiry to the lease grant time plus
\* the lease minus one millisecond, appends the new version with the
\* changed tables exactly when the old and the new version differ, and
\* leaves the other fields; on a stopped validator it changes no field.
C20_UpdateFrame ==
  [][chk' = chk =>
     \A g \in GrantTSs, o, n \in Versions, ids \in TableSets :
       CallUpdate(g, o, n, ids) =>
         IF vlog.stopped THEN sv' = sv
         ELSE /\ sv'.latestSchemaVer = n
              /\ sv'.latestSchemaExpire = (g \div 2 ^ physicalShiftBits) + sv.lease - 1
              /\ sv'.isStarted = sv.isStarted /\ sv'.lease = sv.lease
              /\ sv'.deltaSchemaInfos =
                   IF o # n
                   THEN LastN(Append(sv.deltaSchemaInfos,
                                     [schemaVersion |-> n, relatedTableIDs |-> ids]),
                              maxNumberOfDiffsToLoad)
                   ELSE sv.deltaSchemaInfos]_vars

\* Update appended an entry for its new version to the queue of a started
\* validator and set the expiry.
C20_Witness ==
  /\ sv.isStarted /\ ~vlog.stopped
  /\ vlog.appended = 1 /\ Len(sv.deltaSchemaInfos) = 1
  /\ sv.deltaSchemaInfos[1].schemaVersion = sv.latestSchemaVer
  /\ sv.latestSchemaExpire = MaxGrant + sv.lease - 1

\* C21: from every state of the validator, Reset gives the state that Stop
\* followed at once by Restart gives: the same isStarted, latest schema
\* version, expiry and delta queue.
C21_ResetIsStopRestart == Reset(sv) = Restart(Stop(sv))

\* A stopped validator whose expiry was set, and a started one with a full
\* delta queue: Reset changes both.
C21_Witness ==
  /\ Reset(sv) # sv
  /\ \/ ~sv.isStarted /\ sv.latestSchemaExpire # ZeroTime
     \/ sv.isStarted /\ Len(sv.deltaSchemaInfos) = maxNumberOfDiffsToLoad
  /\ vlog.updStopped \/ vlog.appended > maxNumberOfDiffsToLoad

MaxErrorCount == 2

RunJobs ==
  {[NoJob EXCEPT !.id = 1, !.tp = tp, !.tbl = 1, !.st = st, !.ss = ss,
                 !.errc = n, !.err = (n > 0)] :
     tp \in JobTypes \cup {"unknown"},
     st \in {"none", "running", "rollingback", "cancelling"},
     ss \in 0..MaxSchemaSteps, n \in 0..MaxErrorCount}

InitRun ==
  /\ queue = [q \in WorkerTypes |-> <<>>] /\ hist = <<>>
  /\ gid = 1 /\ diffs = <<>>
  /\ sver \in 0..1
  /\ nodes = {1} /\ owner = 0 /\ epoch = 0 /\ faults = 0
  /\ globalVer = 0 /\ loaded = [n \in Nodes |-> 0]
  /\ lease = 0
  /\ cl = [c \in Clients |-> ClientInit]
  /\ wk = [w \in Workers |-> WorkerInit]
  /\ probe = NoProbe
  /\ ValidatorIdle
  /\ log = NoLog

\* One call of runDDLJob on job with the outcome oc of its step.
ProbeRun(job, oc) ==
  LET r == runDDLJob(sver, job, oc)
  IN  /\ probe' = [fn |-> "run", in |-> job, out |-> r.job, done |-> r.panic,
                   err |-> r.err]
      /\ UNCHANGED probeVars
      /\ UNCHANGED <<sv, chk, vlog>>

NextRun ==
  \E job \in RunJobs : \E oc \in RunOutcomes(job) : ProbeRun(job, oc)

SpecRun == InitRun /\ [][NextRun]_vars

\* C25: when the step of a job returns an error and the job is not
\* Cancelled, runDDLJob leaves it Cancelling exactly when its ErrorCount
\* after the increment exceeds the limit, its State is Running and it is
\* rollbackable; a RollingBack job stays RollingBack whatever its count.
C25_ErrorLimit ==
  probe.fn = "run" /\ ~IsFinished(probe.in) /\ ~IsCancelling(probe.in)
    /\ probe.err /\ ~IsCancelled(probe.out) =>
      /\ probe.out.errc = probe.in.errc + 1
      /\ IsCancelling(probe.out) <=>
           /\ probe.out.errc > ErrorCountLimit
           /\ ~IsRollingback(probe.in)
           /\ IsJobRollbackable(probe.out)
      /\ IsRollingback(probe.in) => IsRollingback(probe.out)
      /\ ~IsCancelling(probe.out) => probe.out.st \in {"running", "rollingback"}

\* A step error took a running job over the limit and it was forced to
\* Cancelling.
C25_Witness ==
  /\ probe.fn = "run" /\ probe.err
  /\ probe.in.st \in {"none", "running"}
  /\ IsCancelling(probe.out) /\ probe.out.errc > ErrorCountLimit



(***************************************************************************)
(* The scheduler started with node 1 as the owner, so that a node can lose *)
(* ownership and acquire it again within MaxOwnerChanges changes.          *)
(***************************************************************************)
InitTerm ==
  /\ gid = 0 /\ sver = 0 /\ diffs = <<>> /\ hist = <<>>
  /\ queue = [q \in WorkerTypes |-> <<>>]
  /\ nodes \in {{1}, Nodes}
  /\ owner = 1 /\ epoch = 0 /\ faults = 0
  /\ globalVer = 0 /\ loaded = [n \in Nodes |-> 0]
  /\ lease = 0
  /\ cl = [c \in Clients |-> ClientInit]
  /\ wk = [w \in Workers |-> WorkerInit]
  /\ probe = NoProbe
  /\ ValidatorIdle
  /\ log = NoLog

SpecTerm == InitTerm /\ [][Next]_vars

\* C26: a worker dispatches a step or finishes a job only after a pass of
\* the present ownership term of its node in which it only performed the
\* schema-sync wait.
C26_FirstPassWaits ==
  [][\A w \in Workers :
       wk[w].pc = "loop" /\ wk'[w].pc = "commit" => wk[w].syncEpoch = epoch]_vars


\* C30: a worker that waits in waitSchemaChanged started the wait for a
\* job that is Running, RollingBack, Done or RollbackDone with a wait time
\* and a version that are not zero; it returns only when every node has
\* loaded the version and OwnerCheckAllVersions says so, or when the
\* deadline has passed, and after another error of OwnerCheckAllVersions
\* only when the deadline has passed; while it waits, its job, the queues
\* and the history store stay as they are.
C30_WaitReturns ==
  [][\A w \in Workers :
       wk[w].pc \in {"syncPub", "syncChk", "syncErr", "waitPub", "waitChk", "waitErr"} =>
         /\ NeedsWait(2 * lease, wk[w].waitVer, wk[w].job)
         /\ wk'[w] # wk[w] =>
              /\ queue' = queue /\ hist' = hist /\ sver' = sver
              /\ wk'[w].pc = "loop" /\ ~wk'[w].once =>
                   \/ wk[w].pc \in {"syncChk", "waitChk"} /\ AllSynced(wk[w].waitVer)
                   \/ wk[w].waited >= 2 * lease
              /\ wk'[w].pc # "loop" =>
                   /\ wk'[w].job = wk[w].job
                   /\ wk'[w].pc \in {"syncPub", "syncChk", "syncErr",
                                     "waitPub", "waitChk", "waitErr"}
                   /\ wk[w].pc \in {"syncErr", "waitErr"} => wk'[w].pc = wk[w].pc]_vars

\* OwnerCheckAllVersions failed while a node had not loaded the version,
\* and the worker has waited until the deadline.
C30_Witness ==
  \E w \in Workers :
    /\ wk[w].pc = "waitErr" /\ wk[w].waited >= 2 * lease
    /\ ~AllSynced(wk[w].waitVer)


NilArgs == "nil"

ArgBytes == {"null", "[a]", "[b]"}

\* json.Marshal of Args and json.Unmarshal of RawArgs into Args.
Marshal(args) == IF args = NilArgs THEN "null" ELSE "[" \o args \o "]"

Unmarshal(bytes) ==
  IF bytes = "null" THEN NilArgs ELSE SubSeq(bytes, 2, Len(bytes) - 1)

\* model.Job.Decode: the job as a pass reads it from the queue.
Decode(bytes) == [raw |-> bytes, args |-> NilArgs]

DecodeArgs(j) == [j EXCEPT !.args = Unmarshal(j.raw)]

Encode(j, flag) == [j EXCEPT !.raw = IF flag THEN Marshal(j.args) ELSE @]

\* What the step does with the arguments before it returns or panics:
\* nothing, DecodeArgs, or DecodeArgs and an assignment of new Args.
ArgOps == {"none", "decode", "set"}

StepArgs(j, op) ==
  IF op = "none" THEN j
  ELSE IF op = "decode" THEN DecodeArgs(j)
  ELSE [DecodeArgs(j) EXCEPT !.args = "b"]

\* updateDDLJob, lines 2069-2075: the flag it passes to UpdateDDLJob.
updateRawArgsAlways(j, meetErr) == TRUE

updateRawArgs(j, meetErr) == ~(meetErr /\ (j.raw # "" /\ j.args = NilArgs))

\* One pass on the stored job with the serialized arguments bytes: the
\* dispatch of lines 2216-2238 with the outcome oc of the step, and what
\* the step did with the arguments.  A behaviour looks at one pass.
ProbeUpdate(job, bytes, oc, op) ==
  LET r == Dispatch(job, oc, FALSE)
      j == StepArgs(Decode(bytes), op)
      e == Encode(j, updateRawArgs(j, r.runJobErr))
  IN  /\ probe = NoProbe
      /\ r.updated
      /\ probe' = [fn |-> "update", in |-> job, out |-> r.job, done |-> r.panic,
                   err |-> r.runJobErr, rawIn |-> bytes, args |-> j.args,
                   rawOut |-> e.raw]
      /\ UNCHANGED probeVars
      /\ UNCHANGED <<sv, chk, vlog>>

NextArgs ==
  \E job \in RunJobs, bytes \in ArgBytes, op \in ArgOps :
    \E oc \in RunOutcomes(job) : ProbeUpdate(job, bytes, oc, op)

SpecArgs == InitRun /\ [][NextArgs]_vars

\* C32: the update of a pass in which runDDLJob returned an error and Args
\* is nil stores the serialized arguments it read; the update of every
\* other pass stores the serialization of the Args in memory.
C32_RawArgsKept ==
  probe.fn = "update" =>
    IF probe.err /\ probe.args = NilArgs
    THEN probe.rawOut = probe.rawIn
    ELSE probe.rawOut = Marshal(probe.args)

\* A step failed before it decoded the arguments of the job, and the pass
\* stored the arguments it had read.
C32_Witness ==
  /\ probe.fn = "update" /\ probe.err /\ probe.args = NilArgs
  /\ probe.rawIn = "[a]" /\ probe.rawOut = "[a]"
  /\ ~IsCancelled(probe.out)

\* C39: the update of a pass whose step panicked while Args was nil stores
\* the serialized arguments it read.
C39_PanicKeepsRawArgs ==
  probe.fn = "update" /\ probe.done /\ probe.args = NilArgs =>
    probe.rawOut = probe.rawIn


(***************************************************************************)
(* The times of the worker, in milliseconds: the wait time of a pass       *)
(* (line 2184), which is the timeout of the context of waitSchemaChanged   *)
(* (line 2451), and the interval of the ticker of the worker loop (line    *)
(* 1943), for the leases a node can be configured with.                    *)
(***************************************************************************)
Second == 1000

LeaseChoices == {0, 50, 500, 600}

chooseLeaseTime(t, max) == IF t = 0 \/ t > max THEN max ELSE t

waitTimeAtLeastSecond(l) == IF 2 * l < Second THEN Second ELSE 2 * l

waitTime(l) == 2 * l

\* The jobs a pass can leave, in every State.
WaitJobs ==
  {[NoJob EXCEPT !.id = 1, !.tp = tp, !.tbl = 1, !.st = st] :
     tp \in JobTypes,
     st \in {"none", "running", "rollingback", "cancelling", "done",
             "rollback done", "synced", "cancelled"}}

InitLease ==
  /\ queue = [q \in WorkerTypes |-> <<>>] /\ hist = <<>>
  /\ gid = 1 /\ diffs = <<>> /\ sver = 0
  /\ nodes = {1} /\ owner = 1 /\ epoch = 1 /\ faults = 0
  /\ globalVer = 0 /\ loaded = [n \in Nodes |-> 0]
  /\ lease \in LeaseChoices
  /\ cl = [c \in Clients |-> ClientInit]
  /\ wk = [w \in Workers |-> WorkerInit]
  /\ probe = NoProbe
  /\ ValidatorIdle
  /\ log = NoLog

\* The end of a pass that left job and whose step returned schemaVer
\* (lines 2264-2268): whether waitSchemaChanged calls the synchronizer,
\* the timeout of its context, and the interval of the ticker.
ProbeWait(job, schemaVer) ==
  /\ probe = NoProbe
  /\ probe' = [fn |-> "wait", in |-> job, out |-> job,
               done |-> NeedsWait(waitTime(lease), schemaVer, job),
               err |-> FALSE, ver |-> schemaVer, timeout |-> waitTime(lease),
               checkTime |-> chooseLeaseTime(2 * lease, 1 * Second)]
  /\ UNCHANGED probeVars
  /\ UNCHANGED <<sv, chk, vlog>>

NextLease ==
  \E job \in WaitJobs, schemaVer \in 0..MaxSchemaSteps + 1 : ProbeWait(job, schemaVer)

SpecLease == InitLease /\ [][NextLease]_vars

\* C33 as stated: after a pass whose step returned a schema version, the
\* synchronizer's wait is called with a timeout of twice the lease that is
\* at least one second.
C33_WaitAtLeastSecond ==
  probe.fn = "wait" /\ probe.ver # 0 =>
    /\ probe.done
    /\ probe.timeout = 2 * lease
    /\ probe.timeout >= Second

\* C33: the synchronizer's wait is called exactly when the job of the pass
\* is Running, RollingBack, Done or RollbackDone, the lease is not zero and
\* the step returned a schema version; its timeout is twice the lease,
\* with no minimum; one second is the interval of the worker's ticker when
\* the lease is zero or above half a second, and that interval is never
\* longer.
C33_WaitTwiceLease ==
  probe.fn = "wait" =>
    /\ probe.done <=>
         /\ probe.in.st \in {"running", "rollingback", "done", "rollback done"}
         /\ lease # 0
         /\ probe.ver # 0
    /\ probe.timeout = 2 * lease
    /\ probe.checkTime = (IF lease = 0 \/ 2 * lease > Second THEN Second ELSE 2 * lease)
    /\ probe.checkTime <= Second

\* A pass with a lease of 50 ms changed the schema version and waits with
\* a timeout of 100 ms.
C33_Witness ==
  /\ probe.fn = "wait" /\ probe.done /\ probe.ver # 0
  /\ lease = 50 /\ probe.timeout = 100 /\ probe.timeout < Second


(***************************************************************************)
(* The scheduler of one node on which nothing fails, started with add      *)
(* index jobs on table 1 waiting in their queue: the jobs enqueued next    *)
(* find every number of conflicting jobs in the other queue.               *)
(***************************************************************************)
QueuedJobs(k) == [i \in 1..k |-> [NewJob(AddIndexStr, 1) EXCEPT !.id = i]]

InitQueued ==
  /\ \E k \in 0..MaxQueueLen :
       /\ gid = k
       /\ queue = [q \in WorkerTypes |->
                     IF q = addIdxWorker THEN QueuedJobs(k) ELSE <<>>]
       /\ log = [NoLog EXCEPT !.enq = {[id |-> i, q |-> addIdxWorker,
                                        dep |-> noneDependencyJob,
                                        found |-> FALSE] : i \in 1..k}]
  /\ sver = 0 /\ diffs = <<>> /\ hist = <<>>
  /\ nodes = {1} /\ owner = 1 /\ epoch = 1 /\ faults = MaxFaults
  /\ globalVer = 0 /\ loaded = [n \in Nodes |-> 0]
  /\ lease = 0
  /\ cl = [c \in Clients |-> ClientInit]
  /\ wk = [w \in Workers |-> WorkerInit]
  /\ probe = NoProbe
  /\ ValidatorIdle

NextQueued ==
  \/ \E c \in Clients, jc \in JobChoices : AddDDLJob(c, jc[1], jc[2])
  \/ \E c \in Clients : AddCommit(c)
  \/ \E w \in Live : PassNoJob(w)
  \/ \E w \in Live : PassDependency(w, FALSE)
  \/ \E w \in Live : PassSync(w, FALSE)
  \/ \E w \in Live : PassFinish(w)
  \/ \E w \in Live : PassRun(w)
  \/ \E w \in Live : Commit(w)

SpecQueued == InitQueued /\ [][NextQueued]_vars

\* C34: while a worker is in the step of job J, the other live queue holds
\* no job with a smaller ID on which J is dependent.
C34_NoStepBeforeDependency ==
  \A w \in Workers :
    Dispatching(w) =>
      \A q \in WorkerTypes \ {QueueOfType(wk[w].job.tp)} :
        \A i \in DOMAIN queue[q] :
          ~(queue[q][i].id < wk[w].job.id /\ IsDependentOn(wk[w].job, queue[q][i]))

\* The job with ID 3 found two conflicting jobs in the other queue when it
\* was enqueued; its step is dispatched with both of them in history.
C34_Witness ==
  \E w \in Workers :
    /\ Dispatching(w)
    /\ wk[w].job.id = 3 /\ wk[w].job.tp = "create table" /\ wk[w].job.tbl = 1
    /\ \E e \in log.enq : e.id = 3 /\ e.found /\ e.dep = 2
    /\ {1, 2} \subseteq DOMAIN hist
    /\ queue[addIdxWorker] = <<>>

\* The head job of queue q has no dependency or its dependency is in
\* history.
HeadSatisfied(q) ==
  /\ queue[q] # <<>>
  /\ \/ queue[q][1].dep = noneDependencyJob
     \/ queue[q][1].dep \in DOMAIN hist

\* C35: every stored DependencyID that is not zero is smaller than the ID
\* of the job holding it, and when some queue is not empty the head job of
\* some queue has a satisfied dependency.
C35_NoDependencyDeadlock ==
  /\ \A q \in WorkerTypes : \A i \in DOMAIN queue[q] :
       queue[q][i].dep # noneDependencyJob => queue[q][i].dep < queue[q][i].id
  /\ \A id \in DOMAIN hist :
       hist[id].dep # noneDependencyJob => hist[id].dep < id
  /\ (\E q \in WorkerTypes : queue[q] # <<>>)
       => \E q \in WorkerTypes : HeadSatisfied(q)

\* Both queues hold jobs; the head of the general queue waits for the job
\* behind the head of the add index queue, whose head can be stepped.
C35_Witness ==
  /\ Len(queue[addIdxWorker]) = 2
  /\ queue[generalWorker] # <<>>
  /\ queue[generalWorker][1].dep = queue[addIdxWorker][2].id
  /\ ~HeadSatisfied(generalWorker)
  /\ HeadSatisfied(addIdxWorker)

(***************************************************************************)
(* The schema validator under the calls of the reload loop of the domain:  *)
(* every Update is called with the version the previous Update brought as  *)
(* oldVer and a version that is not smaller as currVer.  probe holds that  *)
(* version (prev) and the calls of Update since the version and the deltas *)
(* were last cleared that raised the version (since): the new version, the *)
(* changed tables, and whether the validator was started; and whether the  *)
(* version was cleared with no Update on the started validator since       *)
(* (cleared).                                                              *)
(***************************************************************************)
ChainVersions == 0..(MaxVer + 1)

NoChain == [fn |-> "chain", prev |-> 0, since |-> {}, cleared |-> FALSE]

chainFrame == <<storeVars, envVars, faults, cl, wk, log>>

InitChain ==
  /\ gid = 0 /\ sver = 0 /\ diffs = <<>> /\ hist = <<>>
  /\ queue = [q \in WorkerTypes |-> <<>>]
  /\ nodes = {1} /\ owner = 0 /\ epoch = 0 /\ faults = 0
  /\ globalVer = 0 /\ loaded = [n \in Nodes |-> 0]
  /\ lease = 0
  /\ cl = [c \in Clients |-> ClientInit]
  /\ wk = [w \in Workers |-> WorkerInit]
  /\ probe = NoChain
  /\ log = NoLog
  /\ \E l \in {0, LeaseMs} : sv = NewSchemaValidator(l)
  /\ chk = NoCheck
  /\ vlog = NoVLog

ChainUpdate(leaseGrantTS, currVer, changedTableIDs) ==
  /\ ~chk.called
  /\ currVer >= probe.prev
  /\ sv' = Update(sv, leaseGrantTS, probe.prev, currVer, changedTableIDs)
  /\ probe' = [probe EXCEPT
                 !.prev = currVer,
                 !.since = IF currVer > probe.prev
                           THEN @ \cup {[ver |-> currVer, ids |-> changedTableIDs,
                                         applied |-> sv.isStarted]}
                           ELSE @,
                 !.cleared = IF sv.isStarted THEN FALSE ELSE @]
  /\ UNCHANGED <<chainFrame, chk, vlog>>

ChainStop ==
  /\ ~chk.called
  /\ sv' = Stop(sv)
  /\ probe' = [probe EXCEPT !.since = {}, !.cleared = TRUE]
  /\ UNCHANGED <<chainFrame, chk, vlog>>

ChainRestart ==
  /\ ~chk.called
  /\ sv' = Restart(sv)
  /\ UNCHANGED <<chainFrame, probe, chk, vlog>>

ChainReset ==
  /\ ~chk.called
  /\ sv' = Reset(sv)
  /\ probe' = [probe EXCEPT !.since = {}, !.cleared = TRUE]
  /\ UNCHANGED <<chainFrame, chk, vlog>>

NextChain ==
  \/ \E g \in GrantTSs, n \in ChainVersions, ids \in TableSets : ChainUpdate(g, n, ids)
  \/ ChainStop
  \/ ChainRestart
  \/ ChainReset
  \/ \E ts \in TxnTSs, v \in ChainVersions, ids \in TableSets : CallCheck(ts, v, ids)
  \/ CheckReturn

SpecChain == InitChain /\ [][NextChain]_vars

\* The calls of Update since the last clear that raised the version above
\* the version Check is asked about, with a changed table among the related
\* tables of the call of Check.
RaisedAbove ==
  {u \in probe.since :
     u.ver > chk.schemaVer /\ u.ids \cap chk.relatedTableIDs # {}}

\* C36 as stated: Check does not answer Succ when some Update since the
\* last clear raised the version above schemaVer with a changed table among
\* relatedTableIDs.
C36_ChangedNeverSucc ==
  chk.called /\ RaisedAbove # {} => chk.result # ResultSucc

\* C36: on a validator with a lease, Check does not answer Succ when some
\* Update that was made on the started validator since the last clear
\* raised the version above schemaVer with a changed table among
\* relatedTableIDs, whether the delta of that Update is still in the queue
\* or not.
C36_AppliedChangeNeverSucc ==
  chk.called /\ sv.lease # 0 /\ (\E u \in RaisedAbove : u.applied)
    => chk.result # ResultSucc

\* Check answered Fail about a table changed by an Update whose delta has
\* left the queue, no delta that is still in the queue lists that table.
C36_Witness ==
  /\ chk.called /\ sv.lease # 0
  /\ \E u \in RaisedAbove :
       /\ u.applied
       /\ \A i \in 1..Len(sv.deltaSchemaInfos) :
            /\ sv.deltaSchemaInfos[i].schemaVersion # u.ver
            /\ sv.deltaSchemaInfos[i].relatedTableIDs \cap chk.relatedTableIDs = {}
  /\ Len(sv.deltaSchemaInfos) = maxNumberOfDiffsToLoad
  /\ chk.result = ResultFail

\* C37: on a validator with a lease that was reset, or stopped and
\* restarted, Check does not answer Succ before the next Update on the
\* started validator.
C37_NoSuccAfterReset ==
  chk.called /\ sv.lease # 0 /\ sv.isStarted /\ probe.cleared
    => chk.result # ResultSucc

\* C38: the transaction of a pass that moves a job to the history store in
\* State Cancelled commits no increment of the schema version counter and
\* no SchemaDiff, whether the step cancelled the job or the update of the
\* job failed with ErrEntryTooLarge.
C38_CancelledCommitsNoVersion ==
  [][\A w \in Workers :
       /\ wk[w].pc = "commit" /\ wk[w].ran
       /\ wk[w].tx.addHist # NoJob /\ IsCancelled(wk[w].tx.addHist)
       /\ Commit(w)
       => sver' = sver /\ diffs' = diffs]_vars

(***************************************************************************)
(* The end of a loop iteration of handleDDLJobQueue (lines 2268-2270).     *)
(* ddlJobDoneCh is a channel that buffers one notification; ch is the      *)
(* number of notifications pending in it.  asyncNotify (lines 1964-1969)   *)
(* sends in a select with a default case.                                  *)
(***************************************************************************)
asyncNotify(ch) == [ch |-> IF ch = 0 THEN 1 ELSE ch, blocked |-> FALSE]

NotifyDone(job, ch) ==
  LET n == asyncNotify(ch)
  IN  IF IsSynced(job) \/ IsCancelled(job)
      THEN [called |-> TRUE, ch |-> n.ch, blocked |-> n.blocked]
      ELSE [called |-> FALSE, ch |-> ch, blocked |-> FALSE]

\* The head jobs that a pass finishes without a step (lines 2208-2214).
DoneJobs == {j \in WaitJobs : IsDone(j) \/ IsRollbackDone(j)}

\* An iteration whose pass finished the done or rolled back job.
ProbeNotifyFinish(job, pending) ==
  LET stored == FinishState(job)
      n == NotifyDone(stored, pending)
  IN  /\ probe = NoProbe
      /\ probe' = [fn |-> "notify", in |-> job, out |-> stored, done |-> n.called,
                   err |-> FALSE, moved |-> TRUE, chIn |-> pending,
                   chOut |-> n.ch, blocked |-> n.blocked]
      /\ UNCHANGED probeVars
      /\ UNCHANGED <<sv, chk, vlog>>

\* An iteration whose pass ran a step of job.
ProbeNotifyRun(job, oc, tooLarge, pending) ==
  LET r == Dispatch(job, oc, tooLarge)
      n == NotifyDone(r.job, pending)
  IN  /\ probe = NoProbe
      /\ tooLarge => r.updated
      /\ probe' = [fn |-> "notify", in |-> job, out |-> r.job, done |-> n.called,
                   err |-> r.runJobErr, moved |-> r.tx.addHist # NoJob,
                   chIn |-> pending, chOut |-> n.ch, blocked |-> n.blocked]
      /\ UNCHANGED probeVars
      /\ UNCHANGED <<sv, chk, vlog>>

NextNotify ==
  \/ \E job \in DoneJobs, pending \in 0..1 : ProbeNotifyFinish(job, pending)
  \/ \E job \in RunJobs, tooLarge \in BOOLEAN, pending \in 0..1 :
       \E oc \in RunOutcomes(job) : ProbeNotifyRun(job, oc, tooLarge, pending)

SpecNotify == InitRun /\ [][NextNotify]_vars

\* C40: an iteration whose pass moved a job to the history store signals
\* ddlJobDoneCh, whatever State the job was stored with, and the signal
\* does not block: a notification is pending afterwards.
C40_HistorySignalled ==
  probe.fn = "notify" /\ probe.moved =>
    probe.done /\ ~probe.blocked /\ probe.chOut = 1

=============================================================================
